---------------------------- MODULE Spec2Model ----------------------------
(***************************************************************************)
(* Albin's Tic Tac Toe: the board model (utils/gameLogic), the move-search *)
(* engine (utils/ai.ts), the AI-mode controller (hooks/useAIGame.ts) and   *)
(* the peer session machine (hooks/usePeerGame.ts).                        *)
(*                                                                         *)
(* Conventions.  A board is a function from 0..N*N-1 (the source's array   *)
(* indices) to {"X","O",Null}.  JavaScript's null is Null for a cell or a  *)
(* winner, <<>> for a winningLine and NoMove (-1) for a cell index.        *)
(* Search scores are kept as integers by doubling every score of the       *)
(* source (its centre bonus is 0.5); doubling preserves every comparison.  *)
(***************************************************************************)
EXTENDS Integers, Sequences, FiniteSets, Bags, TLC

Null == "null"
NoMove == -1
Players == {"X", "O"}

\* ------------------------------------------------------------------ bounds
\* User-interface callbacks (create, join, start, move, reset, leave) that
\* take effect in one behaviour, over both browsers.
MaxOps == 7
\* The callbacks among them that an AI game can take.
MaxAiOps == 6
\* The callbacks followed from a position in mid-game.
MaxLateOps == 4
\* The cells the user clicks in the App: the top row and two of the middle.
\* Messages in flight to one peer beyond which the heartbeat is not followed.
MaxInFlight == 3
\* Chat messages in one log beyond which no more chat is followed.
MaxChat == 2
\* Callbacks of the AI mode followed where the scheduling is assumed fair.
MaxLiveOps == 3
\* Messages in flight to one peer beyond which the other end sends no more.
MaxForeign == 1
MoveCells == 0..4

\* --------------------------------------------------------------- utilities
other(p) == IF p = "X" THEN "O" ELSE "X"

Max2(a, b) == IF a >= b THEN a ELSE b
Min2(a, b) == IF a <= b THEN a ELSE b

RECURSIVE Pow10(_)
Pow10(n) == IF n <= 0 THEN 1 ELSE 10 * Pow10(n - 1)

\* Math.sqrt(board.length) for the perfect squares the program builds; 0
\* when the length is not a perfect square (the source's size % 1 !== 0).
SizeOf(board) ==
    LET len == Cardinality(DOMAIN board)
    IN  IF \E s \in 1..len : s * s = len
        THEN CHOOSE s \in 1..len : s * s = len
        ELSE 0

\* ------------------------------------------------------------- board model
\* A faulty getWinningCombinations: the rows alone, started at every column
\* but the last, so that a segment can run over the right edge.
getWinningCombinationsWrapping(size, winLength) ==
    [j \in 1..(size * (size - 1)) |->
        [k \in 1..winLength |-> (j - 1) + ((j - 1) \div (size - 1)) + (k - 1)]]

getWinningCombinations(size, winLength) ==
    LET w == size - winLength + 1
        rows == [j \in 1..(size * w) |->
                    LET r == (j - 1) \div w
                        c == (j - 1) % w
                    IN  [k \in 1..winLength |-> r * size + (c + (k - 1))]]
        cols == [j \in 1..(size * w) |->
                    LET c == (j - 1) \div w
                        r == (j - 1) % w
                    IN  [k \in 1..winLength |-> (r + (k - 1)) * size + c]]
        diagDR == [j \in 1..(w * w) |->
                    LET r == (j - 1) \div w
                        c == (j - 1) % w
                    IN  [k \in 1..winLength |-> (r + (k - 1)) * size + (c + (k - 1))]]
        diagDL == [j \in 1..(w * w) |->
                    LET r == (j - 1) \div w
                        c == (winLength - 1) + ((j - 1) % w)
                    IN  [k \in 1..winLength |-> (r + (k - 1)) * size + (c - (k - 1))]]
    IN  IF w <= 0 THEN <<>> ELSE rows \o cols \o diagDR \o diagDL

\* The combinations of the grid sizes the program offers, computed once.
GridSizes == 3..4
CombosTable ==
    [s \in GridSizes |-> [k \in 3..s |-> getWinningCombinations(s, k)]]
Combos(size, winLength) ==
    IF size \in GridSizes /\ winLength \in 3..size
    THEN CombosTable[size][winLength]
    ELSE getWinningCombinations(size, winLength)

comboWins(board, combo) ==
    /\ board[combo[1]] # Null
    /\ \A i \in 2..Len(combo) : board[combo[i]] = board[combo[1]]

\* Faulty variants of checkWinner: one that stops comparing one cell short
\* of the combination's end, one that skips the anti-diagonal combinations.
checkWinnerShort(board, winCondition) ==
    LET size == SizeOf(board)
        combinations == Combos(size, winCondition)
        hit(j) == /\ board[combinations[j][1]] # Null
                  /\ \A i \in 2..(Len(combinations[j]) - 1) :
                        board[combinations[j][i]] = board[combinations[j][1]]
        hits == {j \in 1..Len(combinations) : hit(j)}
    IN  IF size = 0 \/ hits = {}
        THEN [winner |-> Null, line |-> <<>>]
        ELSE LET first == CHOOSE j \in hits : \A h \in hits : j <= h
             IN  [winner |-> board[combinations[first][1]],
                  line |-> combinations[first]]

checkWinnerNoAntiDiagonal(board, winCondition) ==
    LET size == SizeOf(board)
        combinations == Combos(size, winCondition)
        w == size - winCondition + 1
        hits == {j \in 1..(Len(combinations) - w * w) : comboWins(board, combinations[j])}
    IN  IF size = 0 \/ hits = {}
        THEN [winner |-> Null, line |-> <<>>]
        ELSE LET first == CHOOSE j \in hits : \A h \in hits : j <= h
             IN  [winner |-> board[combinations[first][1]],
                  line |-> combinations[first]]

\* A faulty checkWinner: the last complete combination is reported.
checkWinnerLast(board, winCondition) ==
    LET size == SizeOf(board)
        combinations == Combos(size, winCondition)
        hits == {j \in 1..Len(combinations) : comboWins(board, combinations[j])}
    IN  IF size = 0 \/ hits = {}
        THEN [winner |-> Null, line |-> <<>>]
        ELSE LET last == CHOOSE j \in hits : \A h \in hits : j >= h
             IN  [winner |-> board[combinations[last][1]],
                  line |-> combinations[last]]

checkWinner(board, winCondition) ==
    LET size == SizeOf(board)
        combinations == Combos(size, winCondition)
        hits == {j \in 1..Len(combinations) : comboWins(board, combinations[j])}
    IN  IF size = 0 \/ hits = {}
        THEN [winner |-> Null, line |-> <<>>]
        ELSE LET first == CHOOSE j \in hits : \A h \in hits : j <= h
             IN  [winner |-> board[combinations[first][1]],
                  line |-> combinations[first]]

isDraw(board) == \A i \in DOMAIN board : board[i] # Null

\* Faulty variants of isForcedDraw: one that rounds the turns of the player
\* to move down, one that gives the player to move the smaller share.
isForcedDrawHasty(board, winCondition, nextPlayer) ==
    LET combinations == Combos(SizeOf(board), winCondition)
        emptyCount == Cardinality({i \in DOMAIN board : board[i] = Null})
        hasPotentialWin(player) ==
            \E j \in 1..Len(combinations) :
                LET combo == combinations[j]
                IN  /\ \A i \in 1..Len(combo) : board[combo[i]] # other(player)
                    /\ Cardinality({i \in 1..Len(combo) : board[combo[i]] = Null})
                          <= emptyCount \div 2
    IN  ~hasPotentialWin("X") /\ ~hasPotentialWin("O")

isForcedDrawSwapped(board, winCondition, nextPlayer) ==
    LET combinations == Combos(SizeOf(board), winCondition)
        emptyCount == Cardinality({i \in DOMAIN board : board[i] = Null})
        movesRemainingFor(player) ==
            IF player = nextPlayer
            THEN emptyCount \div 2
            ELSE (emptyCount + 1) \div 2
        hasPotentialWin(player) ==
            \E j \in 1..Len(combinations) :
                LET combo == combinations[j]
                IN  /\ \A i \in 1..Len(combo) : board[combo[i]] # other(player)
                    /\ Cardinality({i \in 1..Len(combo) : board[combo[i]] = Null})
                          <= movesRemainingFor(player)
    IN  ~hasPotentialWin("X") /\ ~hasPotentialWin("O")

isForcedDraw(board, winCondition, nextPlayer) ==
    LET size == SizeOf(board)
        combinations == Combos(size, winCondition)
        emptyCount == Cardinality({i \in DOMAIN board : board[i] = Null})
        movesRemainingFor(player) ==
            IF player = nextPlayer
            THEN (emptyCount + 1) \div 2
            ELSE emptyCount \div 2
        hasPotentialWin(player) ==
            \E j \in 1..Len(combinations) :
                LET combo == combinations[j]
                IN  /\ \A i \in 1..Len(combo) : board[combo[i]] # other(player)
                    /\ Cardinality({i \in 1..Len(combo) : board[combo[i]] = Null})
                          <= movesRemainingFor(player)
    IN  IF size = 0
        THEN FALSE
        ELSE ~hasPotentialWin("X") /\ ~hasPotentialWin("O")

getInitialGameState(startingPlayer, gridSize, winCondition) ==
    [board |-> [i \in 0..(gridSize * gridSize - 1) |-> Null],
     currentPlayer |-> startingPlayer,
     status |-> "playing",
     winner |-> Null,
     winningLine |-> <<>>,
     gridSize |-> gridSize,
     winCondition |-> winCondition]

\* getInitialGameState() with its default arguments.
DefaultGameState == getInitialGameState("X", 3, 3)


\* ------------------------------------------------- local game controller
\* utils/gameLogic.applyMoveToGameState.  The basic shape checks (cell
\* empty, status playing, correct mover) return the state unchanged.
applyMoveToGameState(prev, index, player) ==
    IF \/ index \notin DOMAIN prev.board
       \/ prev.status # "playing"
       \/ prev.board[index] # Null
       \/ player # prev.currentPlayer
    THEN [nextState |-> prev, winnerJustHappened |-> Null]
    ELSE LET newBoard == [prev.board EXCEPT ![index] = player]
             res == checkWinner(newBoard, prev.winCondition)
             nextPlayer == other(player)
         IN  IF res.winner # Null
             THEN [nextState |-> [prev EXCEPT !.board = newBoard,
                                              !.status = "winner",
                                              !.winner = res.winner,
                                              !.winningLine = res.line],
                   winnerJustHappened |-> res.winner]
             ELSE IF isDraw(newBoard)
                     \/ isForcedDraw(newBoard, prev.winCondition, nextPlayer)
             THEN [nextState |-> [prev EXCEPT !.board = newBoard,
                                              !.status = "draw"],
                   winnerJustHappened |-> Null]
             ELSE [nextState |-> [prev EXCEPT !.board = newBoard,
                                              !.currentPlayer = nextPlayer],
                   winnerJustHappened |-> Null]

\* setScores((s) => ({ ...s, [w]: s[w] + 1 })) when a winner was just decided.
bumpScore(sc, w) == IF w = Null THEN sc ELSE [sc EXCEPT ![w] = sc[w] + 1]

ZeroScores == [p \in Players |-> 0]

\* ------------------------------------------------------ move-search engine
Infinity == 1000000000
WinScore == 1000000
BlunderPenalty == 100000

RECURSIVE legalFrom(_, _)
legalFrom(board, i) ==
    IF i \notin DOMAIN board
    THEN <<>>
    ELSE (IF board[i] = Null THEN <<i>> ELSE <<>>) \o legalFrom(board, i + 1)

legalMoves(board) == legalFrom(board, 0)

applyMove(board, idx, p) == [board EXCEPT ![idx] = p]

\* A faulty findImmediateWin: it reports no winning cell.
findImmediateWinNever(board, winCondition, p) == NoMove

findImmediateWin(board, winCondition, p) ==
    LET moves == legalMoves(board)
        wins == {j \in 1..Len(moves) :
                    checkWinner(applyMove(board, moves[j], p), winCondition).winner = p}
    IN  IF wins = {}
        THEN NoMove
        ELSE moves[CHOOSE j \in wins : \A h \in wins : j <= h]

\* A faulty contribution: a line of the opponent weighs ten times as much
\* as the same line of ai.
comboScoreDefensive(board, combo, ai) ==
    LET aiCount == Cardinality({i \in 1..Len(combo) : board[combo[i]] = ai})
        oppCount == Cardinality({i \in 1..Len(combo) : board[combo[i]] = other(ai)})
    IN  IF aiCount > 0 /\ oppCount > 0 THEN 0
        ELSE IF aiCount = 0 /\ oppCount = 0 THEN 0
        ELSE IF aiCount > 0 THEN 2 * Pow10(aiCount - 1)
        ELSE 0 - 2 * Pow10(oppCount)

\* One combination's contribution to evaluateBoard, doubled.
comboScore(board, combo, ai) ==
    LET aiCount == Cardinality({i \in 1..Len(combo) : board[combo[i]] = ai})
        oppCount == Cardinality({i \in 1..Len(combo) : board[combo[i]] = other(ai)})
    IN  IF aiCount > 0 /\ oppCount > 0 THEN 0
        ELSE IF aiCount = 0 /\ oppCount = 0 THEN 0
        ELSE IF aiCount > 0 THEN 2 * Pow10(aiCount - 1)
        ELSE 0 - 2 * Pow10(oppCount - 1)

RECURSIVE sumCombos(_, _, _, _)
sumCombos(board, combos, ai, j) ==
    IF j > Len(combos)
    THEN 0
    ELSE comboScore(board, combos[j], ai) + sumCombos(board, combos, ai, j + 1)

\* evaluateBoard, doubled (the centre bonus 0.5 becomes 1).
evaluateBoard(board, gridSize, winCondition, ai) ==
    LET combos == Combos(gridSize, winCondition)
        center == Cardinality(DOMAIN board) \div 2
        bonus == IF board[center] = ai THEN 1
                 ELSE IF board[center] = other(ai) THEN -1
                 ELSE 0
    IN  sumCombos(board, combos, ai, 1) + bonus

\* A faulty terminal score: a win counts the same at every depth.
wonScoreFlat(depth) == 2 * WinScore

\* The scores minimaxAB gives a position won and a position lost by ai with
\* depth plies of the search left, doubled.
wonScore(depth) == 2 * (WinScore + depth)
lostScore(depth) == 2 * (0 - WinScore - depth)

\* minimaxAB, doubled.  late stands for nowMs() > deadlineMs.
RECURSIVE minimaxAB(_, _, _, _, _, _, _, _, _)
RECURSIVE maxLoop(_, _, _, _, _, _, _, _, _, _, _, _)
RECURSIVE minLoop(_, _, _, _, _, _, _, _, _, _, _, _)
minimaxAB(board, gridSize, winCondition, ai, toMove, depth, alpha, beta, late) ==
    IF late
    THEN evaluateBoard(board, gridSize, winCondition, ai)
    ELSE LET w == checkWinner(board, winCondition).winner
         IN  IF w = ai THEN wonScore(depth)
             ELSE IF w = other(ai) THEN lostScore(depth)
             ELSE IF isDraw(board) \/ depth = 0
             THEN evaluateBoard(board, gridSize, winCondition, ai)
             ELSE IF toMove = ai
             THEN maxLoop(board, gridSize, winCondition, ai, toMove, depth,
                          legalMoves(board), 1, 0 - Infinity, alpha, beta, late)
             ELSE minLoop(board, gridSize, winCondition, ai, toMove, depth,
                          legalMoves(board), 1, Infinity, alpha, beta, late)

\* A faulty loop of the maximising player: it stops at the first move that
\* raises alpha.
maxLoopEager(board, gridSize, winCondition, ai, toMove, depth, moves, i, best, alpha, beta, late) ==
    IF i > Len(moves)
    THEN best
    ELSE LET s == minimaxAB(applyMove(board, moves[i], toMove), gridSize, winCondition,
                            ai, other(toMove), depth - 1, alpha, beta, late)
             best2 == Max2(best, s)
             alpha2 == Max2(alpha, best2)
         IN  IF alpha < alpha2
             THEN best2
             ELSE maxLoop(board, gridSize, winCondition, ai, toMove, depth,
                          moves, i + 1, best2, alpha2, beta, late)

maxLoop(board, gridSize, winCondition, ai, toMove, depth, moves, i, best, alpha, beta, late) ==
    IF i > Len(moves)
    THEN best
    ELSE LET s == minimaxAB(applyMove(board, moves[i], toMove), gridSize, winCondition,
                            ai, other(toMove), depth - 1, alpha, beta, late)
             best2 == Max2(best, s)
             alpha2 == Max2(alpha, best2)
         IN  IF beta <= alpha2
             THEN best2
             ELSE maxLoop(board, gridSize, winCondition, ai, toMove, depth,
                          moves, i + 1, best2, alpha2, beta, late)

minLoop(board, gridSize, winCondition, ai, toMove, depth, moves, i, best, alpha, beta, late) ==
    IF i > Len(moves)
    THEN best
    ELSE LET s == minimaxAB(applyMove(board, moves[i], toMove), gridSize, winCondition,
                            ai, other(toMove), depth - 1, alpha, beta, late)
             best2 == Min2(best, s)
             beta2 == Min2(beta, best2)
         IN  IF beta2 <= alpha
             THEN best2
             ELSE minLoop(board, gridSize, winCondition, ai, toMove, depth,
                          moves, i + 1, best2, alpha, beta2, late)

\* A faulty pickTopK: it returns the position in the sorted list, not the move.
pickTopKByPosition(scored, k) ==
    {j - 1 : j \in 1..Min2(k, Len(scored))}

\* A faulty pickTopK: the list is sorted by ascending score.
pickTopKAscending(scored, k) ==
    LET rank(j) == Cardinality({h \in 1..Len(scored) :
                        \/ scored[h].s < scored[j].s
                        \/ (scored[h].s = scored[j].s /\ h < j)})
    IN  {scored[j].m : j \in {h \in 1..Len(scored) : rank(h) < Min2(k, Len(scored))}}

\* pickTopK: the moves Math.random can select among the first min(k, n)
\* entries of the list sorted by descending score (the sort is stable).
pickTopK(scored, k) ==
    LET rank(j) == Cardinality({h \in 1..Len(scored) :
                        \/ scored[h].s > scored[j].s
                        \/ (scored[h].s = scored[j].s /\ h < j)})
    IN  {scored[j].m : j \in {h \in 1..Len(scored) : rank(h) < Min2(k, Len(scored))}}

\* A faulty searchDepth: the search looks one move ahead.
searchDepthOne(gridSize, winCondition, level, nMoves) == 1

searchDepth(gridSize, winCondition, level, nMoves) ==
    IF gridSize = 3 /\ winCondition = 3 THEN nMoves
    ELSE IF gridSize = 4 THEN (IF level = "hard" THEN 5 ELSE 4)
    ELSE IF gridSize = 5 THEN (IF level = "hard" THEN 4 ELSE 3)
    ELSE (IF level = "hard" THEN 3 ELSE 2)

\* The root scores of the search branch of chooseAiMove.
rootScores(board, gridSize, winCondition, ai, level, late) ==
    LET moves == legalMoves(board)
        depth == searchDepth(gridSize, winCondition, level, Len(moves))
    IN  [j \in 1..Len(moves) |->
            [m |-> moves[j],
             s |-> minimaxAB(applyMove(board, moves[j], ai), gridSize, winCondition,
                             ai, other(ai), depth - 1, 0 - Infinity, Infinity, late)]]

\* The root scores of the search at a given depth: chooseAiMove's
\* moves.map with minimaxAB on the board after each legal move.
searchScores(board, gridSize, winCondition, ai, depth, late) ==
    LET moves == legalMoves(board)
    IN  [j \in 1..Len(moves) |->
            [m |-> moves[j],
             s |-> minimaxAB(applyMove(board, moves[j], ai), gridSize, winCondition,
                             ai, other(ai), depth - 1, 0 - Infinity, Infinity, late)]]

\* The moves the easy branch can return, over every outcome of Math.random.
easyMoves(board, gridSize, winCondition, ai) ==
    LET moves == legalMoves(board)
        opp == other(ai)
        mustBlock == findImmediateWin(board, winCondition, opp)
        center == Cardinality(DOMAIN board) \div 2
        scored == [j \in 1..Len(moves) |->
                    LET after == applyMove(board, moves[j], ai)
                        s == evaluateBoard(after, gridSize, winCondition, ai)
                    IN  [m |-> moves[j],
                         s |-> IF findImmediateWin(after, winCondition, opp) # NoMove
                               THEN s - 2 * BlunderPenalty
                               ELSE s]]
    IN  (IF mustBlock # NoMove THEN {mustBlock} ELSE {})
        \cup (IF gridSize % 2 = 1 /\ board[center] = Null THEN {center} ELSE {})
        \cup pickTopK(scored, 5)
        \cup {moves[j] : j \in 1..Len(moves)}

\* Faulty variants of chooseAiMove: one that never blocks, one that does not
\* look for the board without an empty cell.
chooseAiMoveNoBlock(board, gridSize, winCondition, ai, level, late) ==
    LET moves == legalMoves(board)
        winNow == findImmediateWin(board, winCondition, ai)
    IN  IF Len(moves) = 0 THEN {NoMove}
        ELSE IF winNow # NoMove THEN {winNow}
        ELSE IF level = "easy" THEN easyMoves(board, gridSize, winCondition, ai)
        ELSE pickTopK(rootScores(board, gridSize, winCondition, ai, level, late),
                      IF level = "hard" THEN 1 ELSE 3)

chooseAiMoveNoEmptyCheck(board, gridSize, winCondition, ai, level, late) ==
    LET winNow == findImmediateWin(board, winCondition, ai)
        blockNow == findImmediateWin(board, winCondition, other(ai))
    IN  IF winNow # NoMove THEN {winNow}
        ELSE IF level # "easy" /\ blockNow # NoMove THEN {blockNow}
        ELSE IF level = "easy" THEN easyMoves(board, gridSize, winCondition, ai)
        ELSE pickTopK(rootScores(board, gridSize, winCondition, ai, level, late),
                      IF level = "hard" THEN 1 ELSE 3)

\* chooseAiMove: the set of values it can return, over every outcome of
\* Math.random; {NoMove} when the board has no empty cell.
chooseAiMove(board, gridSize, winCondition, ai, level, late) ==
    LET moves == legalMoves(board)
        winNow == findImmediateWin(board, winCondition, ai)
        blockNow == findImmediateWin(board, winCondition, other(ai))
    IN  IF Len(moves) = 0 THEN {NoMove}
        ELSE IF winNow # NoMove THEN {winNow}
        ELSE IF level # "easy" /\ blockNow # NoMove THEN {blockNow}
        ELSE IF level = "easy" THEN easyMoves(board, gridSize, winCondition, ai)
        ELSE pickTopK(rootScores(board, gridSize, winCondition, ai, level, late),
                      IF level = "hard" THEN 1 ELSE 3)

\* ------------------------------------------------ AI mode (useAIGame.ts)
VARIABLES
    config,          \* AiGameConfig, or NoConfig for null
    aiGameState,     \* gameState
    aiScores,        \* scores
    aiThinking,      \* aiThinking
    aiStarter,       \* starter
    timeoutRef,      \* timeoutRef.current: the timer it refers to, or NoTimer for null
    timers,          \* the AI-move timers pending in the browser, a bag
    scheduledForRef, \* the turn key of the scheduled search, or NoKey
    aiEffectDue,     \* the AI turn loop's dependencies changed since it ran
    cancelledPending \* history: the last leave or resetGame found a timer pending

aiVars == <<config, aiGameState, aiScores, aiThinking, aiStarter,
            timeoutRef, timers, scheduledForRef, aiEffectDue, cancelledPending>>

Levels == {"easy", "medium", "hard", "extreme"}
NoConfig == [gridSize |-> 0, winCondition |-> 0, difficulty |-> Null]
NoKey == <<>>
\* A timer is what its callback's closure holds: the move found, the level
\* and (unused by the callback) the position the search was made for.
NoTimer == [active |-> FALSE, move |-> NoMove, level |-> Null, key |-> NoKey]

\* window.clearTimeout(timeoutRef.current): the pending timers afterwards.
clearTimeout(t) == IF t.active THEN timers (-) SetToBag({t}) ELSE timers

\* `O:${difficulty}:${board.map((v) => v ?? '-').join('')}:${gridSize}:${winCondition}`
turnKey(level, gs) ==
    <<"O", level,
      [i \in 1..Cardinality(DOMAIN gs.board) |->
          IF gs.board[i - 1] = Null THEN "-" ELSE gs.board[i - 1]],
      gs.gridSize, gs.winCondition>>

\* The dependencies of the AI turn loop.
aiDeps(cfg, gs) == <<cfg, gs.board, gs.currentPlayer, gs.gridSize, gs.status, gs.winCondition>>

AiInit ==
    /\ config = NoConfig
    /\ aiGameState = DefaultGameState
    /\ aiScores = ZeroScores
    /\ aiThinking = FALSE
    /\ aiStarter = "X"
    /\ timeoutRef = NoTimer
    /\ timers = EmptyBag
    /\ cancelledPending = FALSE
    /\ scheduledForRef = NoKey
    /\ aiEffectDue = FALSE

aiStart(next) ==
    /\ config' = next
    /\ aiScores' = ZeroScores
    /\ aiThinking' = FALSE
    /\ aiStarter' = "X"
    /\ aiGameState' = getInitialGameState("X", next.gridSize, next.winCondition)
    /\ aiEffectDue' = (aiEffectDue \/ aiDeps(config', aiGameState') # aiDeps(config, aiGameState))
    /\ cancelledPending' = FALSE
    /\ UNCHANGED <<timeoutRef, timers, scheduledForRef>>

aiLeave ==
    /\ timers' = clearTimeout(timeoutRef)
    /\ cancelledPending' = (timers # EmptyBag)
    /\ timeoutRef' = NoTimer
    /\ scheduledForRef' = NoKey
    /\ aiThinking' = FALSE
    /\ config' = NoConfig
    /\ aiStarter' = "X"
    /\ aiScores' = ZeroScores
    /\ aiGameState' = DefaultGameState
    /\ aiEffectDue' = (aiEffectDue \/ aiDeps(config', aiGameState') # aiDeps(config, aiGameState))

\* applyMoveLocal: the state and the scores after the move.
aiApplyMoveLocal(index, player) ==
    LET r == applyMoveToGameState(aiGameState, index, player)
    IN  /\ aiGameState' = r.nextState
        /\ aiScores' = bumpScore(aiScores, r.winnerJustHappened)
        /\ aiEffectDue' = (aiEffectDue \/ aiDeps(config, r.nextState) # aiDeps(config, aiGameState))

\* A faulty makeMove of the AI mode: the mark is written without any check.
aiMakeMoveUnchecked(index) ==
    /\ aiGameState' = [aiGameState EXCEPT !.board[index] = "X", !.currentPlayer = "O"]
    /\ aiEffectDue' = TRUE
    /\ UNCHANGED <<cancelledPending, config, aiScores, aiThinking, aiStarter, timeoutRef, timers,
                   scheduledForRef>>

\* A faulty makeMove of the AI mode: it does not look at whose turn it is.
aiMakeMoveAnyTurn(index) ==
    /\ IF \/ aiThinking
          \/ aiGameState.status # "playing"
          \/ aiGameState.board[index] # Null
       THEN UNCHANGED <<aiGameState, aiScores, aiEffectDue>>
       ELSE /\ aiGameState' = [aiGameState EXCEPT !.board[index] = "X",
                                                  !.currentPlayer = "O"]
            /\ aiEffectDue' = TRUE
            /\ UNCHANGED aiScores
    /\ UNCHANGED <<cancelledPending, config, aiThinking, aiStarter, timeoutRef, timers, scheduledForRef>>

aiMakeMove(index) ==
    /\ IF \/ aiThinking
          \/ aiGameState.status # "playing"
          \/ aiGameState.currentPlayer # "X"
          \/ aiGameState.board[index] # Null
       THEN UNCHANGED <<aiGameState, aiScores, aiEffectDue>>
       ELSE aiApplyMoveLocal(index, "X")
    /\ UNCHANGED <<cancelledPending, config, aiThinking, aiStarter, timeoutRef, timers, scheduledForRef>>

\* A faulty resetGame of the AI mode: the pending timer is left to fire.
aiResetGameKeepsTimer ==
    IF config = NoConfig
    THEN UNCHANGED aiVars
    ELSE LET nextStarter == other(aiStarter)
         IN  /\ aiStarter' = nextStarter
             /\ aiThinking' = FALSE
             /\ scheduledForRef' = NoKey
             /\ timeoutRef' = NoTimer
             /\ aiGameState' = getInitialGameState(nextStarter, config.gridSize,
                                                   config.winCondition)
             /\ aiEffectDue' = (aiEffectDue
                                \/ aiDeps(config, aiGameState') # aiDeps(config, aiGameState))
             /\ cancelledPending' = (timers # EmptyBag)
             /\ UNCHANGED <<config, aiScores, timers>>

aiResetGame ==
    IF config = NoConfig
    THEN UNCHANGED aiVars
    ELSE LET nextStarter == other(aiStarter)
         IN  /\ aiStarter' = nextStarter
             /\ aiThinking' = FALSE
             /\ scheduledForRef' = NoKey
             /\ timers' = clearTimeout(timeoutRef)
             /\ cancelledPending' = (timers # EmptyBag)
             /\ timeoutRef' = NoTimer
             /\ aiGameState' = getInitialGameState(nextStarter, config.gridSize,
                                                   config.winCondition)
             /\ aiEffectDue' = (aiEffectDue
                                \/ aiDeps(config, aiGameState') # aiDeps(config, aiGameState))
             /\ UNCHANGED <<config, aiScores>>

\* The search of the AI turn loop and the timer it sets, any timer
\* timeoutRef refers to being cleared first.
scheduleAiMove(late) ==
    /\ scheduledForRef' = turnKey(config.difficulty, aiGameState)
    /\ aiThinking' = TRUE
    /\ \E move \in chooseAiMove(aiGameState.board, aiGameState.gridSize,
                                aiGameState.winCondition, "O",
                                config.difficulty, late) :
          /\ timeoutRef' = [active |-> TRUE, move |-> move,
                            level |-> config.difficulty,
                            key |-> turnKey(config.difficulty, aiGameState)]
          /\ timers' = clearTimeout(timeoutRef) (+) SetToBag({timeoutRef'})

\* A faulty AI turn loop: no turn key is compared, every run searches.
AiTurnEffectNoKey(late) ==
    /\ aiEffectDue
    /\ aiEffectDue' = FALSE
    /\ IF config = NoConfig
       THEN UNCHANGED <<aiThinking, scheduledForRef, timeoutRef, timers>>
       ELSE IF aiGameState.status # "playing" \/ aiGameState.currentPlayer # "O"
       THEN /\ aiThinking' = FALSE
            /\ scheduledForRef' = NoKey
            /\ UNCHANGED <<timeoutRef, timers>>
       ELSE scheduleAiMove(late)
    /\ UNCHANGED <<cancelledPending, config, aiGameState, aiScores, aiStarter>>

\* A faulty AI turn loop: a run for the position already scheduled clears
\* the pending timer, as the cleanup of an effect would.
AiTurnEffectClears(late) ==
    /\ aiEffectDue
    /\ aiEffectDue' = FALSE
    /\ IF config = NoConfig
       THEN UNCHANGED <<aiThinking, scheduledForRef, timeoutRef, timers>>
       ELSE IF aiGameState.status # "playing" \/ aiGameState.currentPlayer # "O"
       THEN /\ aiThinking' = FALSE
            /\ scheduledForRef' = NoKey
            /\ UNCHANGED <<timeoutRef, timers>>
       ELSE IF scheduledForRef = turnKey(config.difficulty, aiGameState)
       THEN /\ timers' = clearTimeout(timeoutRef)
            /\ timeoutRef' = NoTimer
            /\ UNCHANGED <<aiThinking, scheduledForRef>>
       ELSE scheduleAiMove(late)
    /\ UNCHANGED <<cancelledPending, config, aiGameState, aiScores, aiStarter>>

\* The AI turn loop (the effect), run once its dependencies have changed.
AiTurnEffect(late) ==
    /\ aiEffectDue
    /\ aiEffectDue' = FALSE
    /\ IF config = NoConfig
       THEN UNCHANGED <<aiThinking, scheduledForRef, timeoutRef, timers>>
       ELSE IF aiGameState.status # "playing" \/ aiGameState.currentPlayer # "O"
       THEN /\ aiThinking' = FALSE
            /\ scheduledForRef' = NoKey
            /\ UNCHANGED <<timeoutRef, timers>>
       ELSE IF scheduledForRef = turnKey(config.difficulty, aiGameState)
       THEN UNCHANGED <<aiThinking, scheduledForRef, timeoutRef, timers>>
       ELSE scheduleAiMove(late)
    /\ UNCHANGED <<cancelledPending, config, aiGameState, aiScores, aiStarter>>

\* The effect is run again although none of its dependencies has changed.
AiTurnEffectAgain ==
    /\ config # NoConfig
    /\ ~aiEffectDue
    /\ aiEffectDue' = TRUE
    /\ UNCHANGED <<cancelledPending, config, aiGameState, aiScores, aiThinking, aiStarter, timeoutRef,
                   timers, scheduledForRef>>

\* The callback of one of the pending AI-move timers.
AiTimerFire(late) ==
    \E t \in BagToSet(timers) :
        /\ timers' = timers (-) SetToBag({t})
        /\ timeoutRef' = NoTimer
        /\ aiThinking' = FALSE
        /\ IF aiGameState.status # "playing" \/ aiGameState.currentPlayer # "O"
           THEN UNCHANGED <<aiGameState, aiScores, aiEffectDue>>
           ELSE \E legal \in (IF aiGameState.board[t.move] = Null
                              THEN {t.move}
                              ELSE chooseAiMove(aiGameState.board, aiGameState.gridSize,
                                                aiGameState.winCondition, "O",
                                                t.level, late)) :
                    aiApplyMoveLocal(legal, "O")
        /\ UNCHANGED <<cancelledPending, config, aiStarter, scheduledForRef>>

\* ------------------------------------------- peer session (usePeerGame.ts)
\* H is the browser that creates rooms, J the one that joins them.
Peers == {"H", "J"}
otherPeer(p) == IF p = "H" THEN "J" ELSE "H"

VARIABLES
    gameState,         \* gameState of each peer
    connectionStatus,  \* connectionStatus (and connectionStatusRef) of each peer
    myPlayer,          \* myPlayer, Null before a room action
    isHost,            \* isHost
    roomCode,          \* roomCode, "" when none
    scores,            \* scores
    starter,           \* starter
    peerRef,           \* the local endpoint: "none", "opening", "open" or "destroyed"
    connId,            \* which connection connRef holds, 0 for null
    connState,         \* that connection at this peer: "none", "pending", "open", "closed"
    offer,             \* a connection J has requested that has not reached H yet, or 0
    chan,              \* messages in flight to each peer, in send order
    closeEvt,          \* the remote end closed: a 'close' event is due at this peer
    peerErr,           \* an endpoint 'error' event due at this peer, or Null
    connectionTimeoutRef, \* the joiner's connect-timeout is pending
    initialGame,       \* what createRoom's closures hold: the initial GameState
    joinCount,         \* joinRoom calls so far: numbers the connections
    resetUsed,         \* history: this peer called or received a reset since its room action
    syncLog,           \* history: the last SYNC_STATE snapshot H sent and the gameState H held then
    errorMessage,      \* errorMessage, Null when none
    retryCount,        \* what createRoom's closures hold: the retryCount of the call
    heartbeat,         \* how many heartbeat intervals of the peer are running
    chatMessages,      \* chatMessages: the chat log, oldest first
    handlerPlayer,     \* myPlayer as the handleData registered on the connection holds it
    opponentName       \* opponentName

netVars == <<gameState, connectionStatus, myPlayer, isHost, roomCode, scores, starter,
             peerRef, connId, connState, offer, chan, closeEvt, peerErr,
             connectionTimeoutRef, initialGame, joinCount, resetUsed, syncLog,
             errorMessage, retryCount, heartbeat, chatMessages, handlerPlayer,
             opponentName>>

\* Room codes (Math.floor(100 + Math.random() * 900)) the model draws from.
RoomCodes == {"100", "101"}
\* The code createRoom draws.
HostCodes == {"100"}
\* Board configurations createRoom is called with: <<gridSize, winCondition>>.
RoomConfigs == {<<3, 3>>}

\* The texts setErrorMessage is called with.
OpponentDisconnected == "Opponent disconnected"
HostDisconnected == "Host disconnected"
ConnectionTimedOut == "Connection timed out. Room might not exist or host is offline."
RoomNotFound(code) == "Room " \o code \o " not found."
UnableToGenerateCode == "Unable to generate a unique room code. Please try again."
FailedToInitializeRoom == "Failed to initialize room. Check internet connection."
\* opponentName before a HANDSHAKE, and for a HANDSHAKE with an empty name.
DefaultOpponentName == "Opponent"
\* The display names the two users entered.
PlayerNames == [p \in Peers |-> IF p = "H" THEN "Ann" ELSE "Bob"]
\* appendChatMessage keeps the last ChatLimit messages.
ChatLimit == 100
\* createRoom retries an identifier collision while retryCount < MaxRetries.
MaxRetries == 5

NoSync == [made |-> FALSE, sent |-> DefaultGameState, held |-> DefaultGameState]

NetInit ==
    /\ gameState = [p \in Peers |-> DefaultGameState]
    /\ connectionStatus = [p \in Peers |-> "disconnected"]
    /\ myPlayer = [p \in Peers |-> Null]
    /\ isHost = [p \in Peers |-> FALSE]
    /\ roomCode = [p \in Peers |-> ""]
    /\ scores = [p \in Peers |-> ZeroScores]
    /\ starter = [p \in Peers |-> "X"]
    /\ peerRef = [p \in Peers |-> "none"]
    /\ connId = [p \in Peers |-> 0]
    /\ connState = [p \in Peers |-> "none"]
    /\ offer = 0
    /\ chan = [p \in Peers |-> <<>>]
    /\ closeEvt = [p \in Peers |-> FALSE]
    /\ peerErr = [p \in Peers |-> Null]
    /\ connectionTimeoutRef = FALSE
    /\ initialGame = DefaultGameState
    /\ joinCount = 0
    /\ resetUsed = [p \in Peers |-> FALSE]
    /\ syncLog = NoSync
    /\ errorMessage = [p \in Peers |-> Null]
    /\ retryCount = 0
    /\ heartbeat = [p \in Peers |-> 0]
    /\ chatMessages = [p \in Peers |-> <<>>]
    /\ handlerPlayer = [p \in Peers |-> Null]
    /\ opponentName = [p \in Peers |-> DefaultOpponentName]

\* The two ends hold the same connection and neither has closed it.
linked(p) ==
    /\ connId[p] # 0
    /\ connId[p] = connId[otherPeer(p)]
    /\ connState[p] \in {"pending", "open"}
    /\ connState[otherPeer(p)] \in {"pending", "open"}

\* sendMessage: chan after p sends msgs (nothing is sent on a connection
\* that is not open; what is sent to an end that has gone is lost).
sendMessage(p, msgs) ==
    IF connState[p] = "open" /\ linked(p)
    THEN [chan EXCEPT ![otherPeer(p)] = @ \o msgs]
    ELSE chan

\* What p's cleanup() does to the transport: its connection is closed and
\* its endpoint destroyed; the other end, if open, is due a 'close' event.
cleanupTransport(p, endpoint) ==
    /\ peerRef' = [peerRef EXCEPT ![p] = endpoint]
    /\ connId' = [connId EXCEPT ![p] = 0]
    /\ connState' = [connState EXCEPT ![p] = "none"]
    /\ closeEvt' = [q \in Peers |->
                      IF q = p THEN FALSE
                      ELSE closeEvt[q] \/ (linked(p) /\ connState[q] = "open")]
    /\ chan' = [chan EXCEPT ![p] = <<>>]
    /\ peerErr' = [peerErr EXCEPT ![p] = Null]
    /\ offer' = 0

createRoom(gridSize, winCondition, code) ==
    /\ cleanupTransport("H", "opening")
    /\ connectionStatus' = [connectionStatus EXCEPT !["H"] = "connecting"]
    /\ initialGame' = getInitialGameState("X", gridSize, winCondition)
    /\ gameState' = [gameState EXCEPT !["H"] = initialGame']
    /\ roomCode' = [roomCode EXCEPT !["H"] = code]
    /\ isHost' = [isHost EXCEPT !["H"] = TRUE]
    /\ myPlayer' = [myPlayer EXCEPT !["H"] = "X"]
    /\ starter' = [starter EXCEPT !["H"] = "X"]
    /\ scores' = [scores EXCEPT !["H"] = ZeroScores]
    /\ resetUsed' = [resetUsed EXCEPT !["H"] = FALSE]
    /\ syncLog' = NoSync
    /\ errorMessage' = [errorMessage EXCEPT !["H"] = Null]
    /\ retryCount' = 0
    /\ chatMessages' = [chatMessages EXCEPT !["H"] = <<>>]
    /\ handlerPlayer' = [handlerPlayer EXCEPT !["H"] = myPlayer["H"]]
    /\ opponentName' = [opponentName EXCEPT !["H"] = DefaultOpponentName]
    /\ UNCHANGED <<connectionTimeoutRef, joinCount>>

\* createRoom called again by the endpoint's 'error' handler, retryCount + 1
\* being above 0: no cleanup, a new code and a new endpoint.
createRoomRetry(code) ==
    /\ retryCount' = retryCount + 1
    /\ peerRef' = [peerRef EXCEPT !["H"] = "opening"]
    /\ errorMessage' = [errorMessage EXCEPT !["H"] = Null]
    /\ connectionStatus' = [connectionStatus EXCEPT !["H"] = "connecting"]
    /\ gameState' = [gameState EXCEPT !["H"] = initialGame]
    /\ roomCode' = [roomCode EXCEPT !["H"] = code]
    /\ isHost' = [isHost EXCEPT !["H"] = TRUE]
    /\ myPlayer' = [myPlayer EXCEPT !["H"] = "X"]
    /\ UNCHANGED <<scores, starter, connId, connState, offer, chan, closeEvt, peerErr,
                   connectionTimeoutRef, initialGame, joinCount, resetUsed, syncLog,
                   chatMessages, handlerPlayer, opponentName>>

\* A faulty 'error' handler of the host's endpoint: it retries every
\* identifier collision.
hostPeerErrorRetrying(type, code) ==
    /\ peerRef["H"] = "opening"
    /\ IF type = "unavailable-id"
       THEN createRoomRetry(code)
       ELSE /\ peerRef' = [peerRef EXCEPT !["H"] = "destroyed"]
            /\ errorMessage' = [errorMessage EXCEPT !["H"] = FailedToInitializeRoom]
            /\ connectionStatus' = [connectionStatus EXCEPT !["H"] = "error"]
            /\ UNCHANGED <<gameState, myPlayer, isHost, roomCode, scores, starter, connId,
                           connState, offer, chan, closeEvt, peerErr, connectionTimeoutRef,
                           initialGame, joinCount, resetUsed, syncLog, retryCount,
                   chatMessages, handlerPlayer, opponentName>>

\* peer.on('error') of the host's endpoint, which has not opened: the
\* transport reports the identifier as taken, or another failure.  The
\* transport destroys an endpoint that fails before it has opened.
hostPeerError(type, code) ==
    /\ peerRef["H"] = "opening"
    /\ IF type = "unavailable-id" /\ retryCount < MaxRetries
       THEN createRoomRetry(code)
       ELSE /\ peerRef' = [peerRef EXCEPT !["H"] = "destroyed"]
            /\ errorMessage' = [errorMessage EXCEPT !["H"] =
                                   IF type = "unavailable-id"
                                   THEN UnableToGenerateCode
                                   ELSE FailedToInitializeRoom]
            /\ connectionStatus' = [connectionStatus EXCEPT !["H"] = "error"]
            /\ UNCHANGED <<gameState, myPlayer, isHost, roomCode, scores, starter, connId,
                           connState, offer, chan, closeEvt, peerErr, connectionTimeoutRef,
                           initialGame, joinCount, resetUsed, syncLog, retryCount,
                   chatMessages, handlerPlayer, opponentName>>

\* peer.on('open') of the host's endpoint.
hostPeerOpen ==
    /\ peerRef["H"] = "opening"
    /\ peerRef' = [peerRef EXCEPT !["H"] = "open"]
    /\ connectionStatus' = [connectionStatus EXCEPT !["H"] = "disconnected"]
    /\ UNCHANGED <<gameState, myPlayer, isHost, roomCode, scores, starter, connId,
                   connState, offer, chan, closeEvt, peerErr, connectionTimeoutRef,
                   initialGame, joinCount,
                   resetUsed, syncLog,
                   errorMessage, retryCount,
                   chatMessages, handlerPlayer, opponentName>>

joinRoom(code) ==
    /\ joinCount' = joinCount + 1
    /\ cleanupTransport("J", "opening")
    /\ connectionStatus' = [connectionStatus EXCEPT !["J"] = "connecting"]
    /\ gameState' = [gameState EXCEPT !["J"] = DefaultGameState]
    /\ roomCode' = [roomCode EXCEPT !["J"] = code]
    /\ isHost' = [isHost EXCEPT !["J"] = FALSE]
    /\ myPlayer' = [myPlayer EXCEPT !["J"] = "O"]
    /\ starter' = [starter EXCEPT !["J"] = "X"]
    /\ scores' = [scores EXCEPT !["J"] = ZeroScores]
    /\ connectionTimeoutRef' = TRUE
    /\ resetUsed' = [resetUsed EXCEPT !["J"] = FALSE]
    /\ errorMessage' = [errorMessage EXCEPT !["J"] = Null]
    /\ chatMessages' = [chatMessages EXCEPT !["J"] = <<>>]
    /\ handlerPlayer' = [handlerPlayer EXCEPT !["J"] = myPlayer["J"]]
    /\ opponentName' = [opponentName EXCEPT !["J"] = DefaultOpponentName]
    /\ UNCHANGED <<initialGame, syncLog, retryCount>>

\* peer.on('open') of the joiner's endpoint: peer.connect(destId).  The
\* request travels to the host when an open endpoint has that identifier;
\* otherwise the transport reports peer-unavailable.
joinerPeerOpen ==
    /\ peerRef["J"] = "opening"
    /\ peerRef' = [peerRef EXCEPT !["J"] = "open"]
    /\ connId' = [connId EXCEPT !["J"] = joinCount]
    /\ connState' = [connState EXCEPT !["J"] = "pending"]
    /\ IF peerRef["H"] = "open" /\ roomCode["H"] = roomCode["J"]
       THEN offer' = joinCount /\ UNCHANGED peerErr
       ELSE peerErr' = [peerErr EXCEPT !["J"] = "peer-unavailable"] /\ UNCHANGED offer
    /\ UNCHANGED <<gameState, connectionStatus, myPlayer, isHost, roomCode, scores,
                   starter, chan, closeEvt, connectionTimeoutRef, initialGame, joinCount, resetUsed, syncLog,
                   errorMessage, retryCount,
                   chatMessages, handlerPlayer, opponentName>>

\* The transport loses the signalling server after the joiner's endpoint
\* has opened: an 'error' event of type network is due at the endpoint; its
\* connection, if any, stays as it is.
joinerPeerFault ==
    /\ peerRef["J"] = "open"
    /\ peerErr["J"] = Null
    /\ peerErr' = [peerErr EXCEPT !["J"] = "network"]
    /\ UNCHANGED <<gameState, connectionStatus, myPlayer, isHost, roomCode, scores,
                   starter, peerRef, connId, connState, offer, chan, closeEvt,
                   connectionTimeoutRef, initialGame, joinCount, resetUsed, syncLog,
                   errorMessage, retryCount, heartbeat,
                   chatMessages, handlerPlayer, opponentName>>

\* peer.on('error') of the joiner's endpoint.
joinerPeerError ==
    /\ peerErr["J"] # Null
    /\ peerErr' = [peerErr EXCEPT !["J"] = Null]
    /\ connectionTimeoutRef' = FALSE
    /\ connectionStatus' = [connectionStatus EXCEPT !["J"] = "error"]
    /\ errorMessage' = [errorMessage EXCEPT !["J"] =
                           IF peerErr["J"] = "peer-unavailable"
                           THEN RoomNotFound(roomCode["J"])
                           ELSE "Connection failed. Check your internet."]
    /\ UNCHANGED <<gameState, myPlayer, isHost, roomCode, scores, starter, peerRef,
                   connId, connState, offer, chan, closeEvt, initialGame, joinCount, resetUsed, syncLog,
                   retryCount,
                   chatMessages, handlerPlayer, opponentName>>

\* A faulty connect-timeout: it gives the join up (a full cleanup) although
\* the connection may still open.
connectTimeoutCleanup ==
    /\ connectionTimeoutRef
    /\ connectionTimeoutRef' = FALSE
    /\ IF connectionStatus["J"] # "connected"
       THEN /\ cleanupTransport("J", "none")
            /\ connectionStatus' = [connectionStatus EXCEPT !["J"] = "error"]
            /\ errorMessage' = [errorMessage EXCEPT !["J"] = ConnectionTimedOut]
            /\ chatMessages' = [chatMessages EXCEPT !["J"] = <<>>]
            /\ opponentName' = [opponentName EXCEPT !["J"] = DefaultOpponentName]
       ELSE UNCHANGED <<connectionStatus, peerRef, connId, connState, closeEvt,
                        chan, peerErr, offer, errorMessage, chatMessages, opponentName>>
    /\ UNCHANGED <<gameState, myPlayer, isHost, roomCode, scores, starter,
                   initialGame, joinCount, resetUsed, syncLog, retryCount,
                   handlerPlayer>>

\* The connect-timeout's callback.
connectTimeout ==
    /\ connectionTimeoutRef
    /\ connectionTimeoutRef' = FALSE
    /\ connectionStatus' =
          IF connectionStatus["J"] # "connected"
          THEN [connectionStatus EXCEPT !["J"] = "error"]
          ELSE connectionStatus
    /\ errorMessage' =
          IF connectionStatus["J"] # "connected"
          THEN [errorMessage EXCEPT !["J"] = ConnectionTimedOut]
          ELSE errorMessage
    /\ UNCHANGED <<gameState, myPlayer, isHost, roomCode, scores, starter, peerRef,
                   connId, connState, offer, chan, closeEvt, peerErr, initialGame, joinCount, resetUsed, syncLog,
                   retryCount,
                   chatMessages, handlerPlayer, opponentName>>

\* A faulty peer.on('connection'): a host that already holds a connection
\* keeps it and drops the new one.
hostOnConnectionKeepsPrior ==
    /\ offer # 0
    /\ peerRef["H"] = "open"
    /\ offer' = 0
    /\ IF connId["H"] # 0
       THEN UNCHANGED <<connId, connState, connectionStatus, errorMessage, closeEvt, chan>>
       ELSE /\ connId' = [connId EXCEPT !["H"] = offer]
            /\ connState' = [connState EXCEPT !["H"] = "pending"]
            /\ UNCHANGED <<connectionStatus, errorMessage, closeEvt, chan>>
    /\ UNCHANGED <<gameState, myPlayer, isHost, roomCode, scores, starter, peerRef,
                   peerErr, connectionTimeoutRef, initialGame,
                   joinCount, resetUsed, syncLog, retryCount,
                   chatMessages, handlerPlayer, opponentName>>

\* peer.on('connection') at the host: a prior connection is closed (its
\* 'close' handler runs at once when it was open) and replaced.
hostOnConnection ==
    /\ offer # 0
    /\ peerRef["H"] = "open"
    /\ offer' = 0
    /\ connId' = [connId EXCEPT !["H"] = offer]
    /\ connState' = [connState EXCEPT !["H"] = "pending"]
    /\ connectionStatus' =
          IF connState["H"] = "open"
          THEN [connectionStatus EXCEPT !["H"] = "disconnected"]
          ELSE connectionStatus
    /\ errorMessage' =
          IF connState["H"] = "open"
          THEN [errorMessage EXCEPT !["H"] = OpponentDisconnected]
          ELSE errorMessage
    /\ closeEvt' = [closeEvt EXCEPT !["H"] = FALSE]
    /\ chan' = [chan EXCEPT !["H"] = <<>>]
    /\ UNCHANGED <<gameState, myPlayer, isHost, roomCode, scores, starter, peerRef,
                   peerErr, connectionTimeoutRef, initialGame,
                   joinCount, resetUsed, syncLog, retryCount,
                   chatMessages, handlerPlayer, opponentName>>

HostHandshake == [type |-> "HANDSHAKE", name |-> PlayerNames["H"],
                  gridSize |-> initialGame.gridSize,
                  winCondition |-> initialGame.winCondition]
JoinerHandshake == [type |-> "HANDSHAKE", name |-> PlayerNames["J"],
                    gridSize |-> 0, winCondition |-> 0]

\* onOpen at the host: the connection has opened.
hostConnOpen ==
    /\ connState["H"] = "pending"
    /\ linked("H")
    /\ connState' = [connState EXCEPT !["H"] = "open"]
    /\ connectionStatus' = [connectionStatus EXCEPT !["H"] = "connected"]
    /\ chan' = [chan EXCEPT !["J"] = @ \o <<HostHandshake,
                                           [type |-> "SYNC_STATE", state |-> initialGame]>>]
    /\ syncLog' = [made |-> TRUE, sent |-> initialGame, held |-> gameState["H"]]
    /\ UNCHANGED <<gameState, myPlayer, isHost, roomCode, scores, starter, peerRef,
                   connId, offer, closeEvt, peerErr, connectionTimeoutRef, initialGame, joinCount, resetUsed,
                   errorMessage, retryCount,
                   chatMessages, handlerPlayer, opponentName>>

\* A faulty 'open' handler of the joiner: the connect-timeout is not cleared.
joinerConnOpenKeepsTimer ==
    /\ connState["J"] = "pending"
    /\ linked("J")
    /\ connState' = [connState EXCEPT !["J"] = "open"]
    /\ connectionStatus' = [connectionStatus EXCEPT !["J"] = "connected"]
    /\ chan' = [chan EXCEPT !["H"] = @ \o <<JoinerHandshake, [type |-> "PING"]>>]
    /\ UNCHANGED <<gameState, myPlayer, isHost, roomCode, scores, starter, peerRef,
                   connId, offer, closeEvt, peerErr, initialGame, joinCount, resetUsed,
                   syncLog, errorMessage, retryCount, connectionTimeoutRef,
                   chatMessages, handlerPlayer, opponentName>>

\* conn.on('open') at the joiner.
joinerConnOpen ==
    /\ connState["J"] = "pending"
    /\ linked("J")
    /\ connState' = [connState EXCEPT !["J"] = "open"]
    /\ connectionTimeoutRef' = FALSE
    /\ connectionStatus' = [connectionStatus EXCEPT !["J"] = "connected"]
    /\ chan' = [chan EXCEPT !["H"] = @ \o <<JoinerHandshake, [type |-> "PING"]>>]
    /\ UNCHANGED <<gameState, myPlayer, isHost, roomCode, scores, starter, peerRef,
                   connId, offer, closeEvt, peerErr, initialGame, joinCount, resetUsed, syncLog,
                   errorMessage, retryCount,
                   chatMessages, handlerPlayer, opponentName>>

\* conn.on('close'): the other end closed the connection.
connClose(p) ==
    /\ closeEvt[p]
    /\ closeEvt' = [closeEvt EXCEPT ![p] = FALSE]
    /\ connState' = [connState EXCEPT ![p] = "closed"]
    /\ chan' = [chan EXCEPT ![p] = <<>>]
    /\ connectionStatus' = [connectionStatus EXCEPT ![p] = "disconnected"]
    /\ errorMessage' = [errorMessage EXCEPT ![p] =
                           IF p = "H" THEN OpponentDisconnected ELSE HostDisconnected]
    /\ UNCHANGED <<gameState, myPlayer, isHost, roomCode, scores, starter, peerRef,
                   connId, offer, peerErr, connectionTimeoutRef, initialGame, joinCount, resetUsed, syncLog,
                   retryCount,
                   chatMessages, handlerPlayer, opponentName>>

\* The earlier updateGameLocal: it checks the cell and the status, not the
\* mover.
updateGameLocalEarlier(p, index, player) ==
    LET prev == gameState[p]
        newBoard == [prev.board EXCEPT ![index] = player]
        res == checkWinner(newBoard, prev.winCondition)
    IN  IF prev.board[index] # Null \/ prev.status # "playing"
        THEN UNCHANGED <<gameState, scores>>
        ELSE /\ gameState' = [gameState EXCEPT ![p] =
                    [prev EXCEPT !.board = newBoard,
                                 !.currentPlayer = other(player),
                                 !.status = IF res.winner # Null THEN "winner"
                                            ELSE IF isDraw(newBoard) THEN "draw"
                                            ELSE "playing",
                                 !.winner = res.winner,
                                 !.winningLine = res.line]]
             /\ scores' = [scores EXCEPT ![p] = bumpScore(@, res.winner)]

\* updateGameLocal: p's gameState and scores after the move.
updateGameLocal(p, index, player) ==
    LET r == applyMoveToGameState(gameState[p], index, player)
    IN  /\ gameState' = [gameState EXCEPT ![p] = r.nextState]
        /\ scores' = [scores EXCEPT ![p] = bumpScore(@, r.winnerJustHappened)]

\* appendChatMessage.
appendChatMessage(log, msg) ==
    LET next == Append(log, msg)
    IN  IF Len(next) > ChatLimit
        THEN SubSeq(next, Len(next) - ChatLimit + 1, Len(next))
        ELSE next

\* A faulty handleData for HANDSHAKE: the joiner's handshake, which carries
\* no configuration, also starts a fresh default game.
handshakeGameAlways(p, msg) ==
    IF msg.gridSize # 0 /\ msg.winCondition # 0
    THEN [gameState EXCEPT ![p] =
            getInitialGameState("X", msg.gridSize, msg.winCondition)]
    ELSE [gameState EXCEPT ![p] = DefaultGameState]

\* gameState after handleData's HANDSHAKE branch.
handshakeGame(p, msg) ==
    IF msg.gridSize # 0 /\ msg.winCondition # 0
    THEN [gameState EXCEPT ![p] =
            getInitialGameState("X", msg.gridSize, msg.winCondition)]
    ELSE gameState

\* The sender handleData assumes for a legacy CHAT: myPlayer is the value
\* the registered handleData closed over.
assumedFrom(p) == IF handlerPlayer[p] = "X" THEN "O" ELSE "X"

\* A faulty handleData for the other messages: an unrecognised type is
\* taken for a fatal error.
ignoredMessageFatal(p, msg) ==
    /\ connectionStatus' =
          IF msg.type \in {"PING", "PONG"}
          THEN connectionStatus
          ELSE [connectionStatus EXCEPT ![p] = "error"]
    /\ UNCHANGED <<gameState, scores, starter, resetUsed, chatMessages, opponentName>>

\* handleData on PING, PONG and on a type no branch names: nothing.
ignoredMessage(p, msg) ==
    UNCHANGED <<gameState, scores, starter, resetUsed, chatMessages, opponentName,
                connectionStatus>>

\* handleData: p receives the message at the head of its channel.
handleData(p) ==
    /\ connState[p] = "open"
    /\ chan[p] # <<>>
    /\ chan' = [chan EXCEPT ![p] = Tail(@)]
    /\ LET msg == Head(chan[p])
       IN  IF msg.type = "MOVE"
           THEN /\ updateGameLocal(p, msg.index, msg.player)
                /\ UNCHANGED <<starter, resetUsed, chatMessages, opponentName,
                               connectionStatus>>
           ELSE IF msg.type = "RESET"
           THEN /\ starter' = [starter EXCEPT ![p] = msg.startingPlayer]
                /\ gameState' = [gameState EXCEPT ![p] =
                        getInitialGameState(msg.startingPlayer, @.gridSize, @.winCondition)]
                /\ resetUsed' = [resetUsed EXCEPT ![p] = TRUE]
                /\ UNCHANGED <<scores, chatMessages, opponentName, connectionStatus>>
           ELSE IF msg.type = "SYNC_STATE"
           THEN /\ gameState' = [gameState EXCEPT ![p] = msg.state]
                /\ UNCHANGED <<scores, starter, resetUsed, chatMessages, opponentName,
                               connectionStatus>>
           ELSE IF msg.type = "HANDSHAKE"
           THEN /\ opponentName' = [opponentName EXCEPT ![p] =
                        IF msg.name # "" THEN msg.name ELSE DefaultOpponentName]
                /\ gameState' = handshakeGame(p, msg)
                /\ UNCHANGED <<scores, starter, resetUsed, chatMessages, connectionStatus>>
           ELSE IF msg.type = "CHAT"
           THEN /\ chatMessages' = [chatMessages EXCEPT ![p] =
                        appendChatMessage(@,
                            [from |-> IF msg.from # Null THEN msg.from ELSE assumedFrom(p),
                             text |-> msg.text])]
                /\ UNCHANGED <<gameState, scores, starter, resetUsed, opponentName,
                               connectionStatus>>
           ELSE ignoredMessage(p, msg)
    /\ UNCHANGED <<myPlayer, isHost, roomCode, peerRef, connId,
                   connState, offer, closeEvt, peerErr, connectionTimeoutRef,
                   initialGame, joinCount, syncLog,
                   errorMessage, retryCount, handlerPlayer>>

\* Faulty variants of makeMove: one that applies the move and sends
\* nothing, one that writes the mark without any check.
makeMoveSilent(p, index) ==
    /\ index \in DOMAIN gameState[p].board
    /\ IF \/ gameState[p].status # "playing"
          \/ gameState[p].currentPlayer # myPlayer[p]
          \/ gameState[p].board[index] # Null
       THEN UNCHANGED <<gameState, scores>>
       ELSE updateGameLocal(p, index, myPlayer[p])
    /\ UNCHANGED <<connectionStatus, myPlayer, isHost, roomCode, starter, peerRef,
                   connId, connState, offer, chan, closeEvt, peerErr,
                   connectionTimeoutRef, initialGame, joinCount, resetUsed, syncLog,
                   errorMessage, retryCount,
                   chatMessages, handlerPlayer, opponentName>>

makeMoveUnchecked(p, index) ==
    /\ index \in DOMAIN gameState[p].board
    /\ gameState' = [gameState EXCEPT ![p].board[index] = myPlayer[p],
                                      ![p].currentPlayer = other(myPlayer[p])]
    /\ chan' = IF connectionStatus[p] = "connected"
               THEN sendMessage(p, <<[type |-> "MOVE", index |-> index,
                                      player |-> myPlayer[p]]>>)
               ELSE chan
    /\ UNCHANGED <<connectionStatus, myPlayer, isHost, roomCode, scores, starter,
                   peerRef, connId, connState, offer, closeEvt, peerErr,
                   connectionTimeoutRef, initialGame, joinCount, resetUsed, syncLog,
                   errorMessage, retryCount,
                   chatMessages, handlerPlayer, opponentName>>

makeMove(p, index) ==
    /\ index \in DOMAIN gameState[p].board
    /\ IF \/ gameState[p].status # "playing"
          \/ gameState[p].currentPlayer # myPlayer[p]
          \/ gameState[p].board[index] # Null
       THEN UNCHANGED <<gameState, scores, chan>>
       ELSE /\ updateGameLocal(p, index, myPlayer[p])
            /\ chan' = IF connectionStatus[p] = "connected"
                       THEN sendMessage(p, <<[type |-> "MOVE", index |-> index,
                                              player |-> myPlayer[p]]>>)
                       ELSE chan
    /\ UNCHANGED <<connectionStatus, myPlayer, isHost, roomCode, starter, peerRef,
                   connId, connState, offer, closeEvt, peerErr, connectionTimeoutRef,
                   initialGame, joinCount, resetUsed, syncLog,
                   errorMessage, retryCount,
                   chatMessages, handlerPlayer, opponentName>>

resetGame(p) ==
    /\ LET nextStarter == other(starter[p])
       IN  /\ starter' = [starter EXCEPT ![p] = nextStarter]
           /\ gameState' = [gameState EXCEPT ![p] =
                   getInitialGameState(nextStarter, @.gridSize, @.winCondition)]
           /\ chan' = IF connectionStatus[p] = "connected"
                      THEN sendMessage(p, <<[type |-> "RESET",
                                             startingPlayer |-> nextStarter]>>)
                      ELSE chan
    /\ resetUsed' = [resetUsed EXCEPT ![p] = TRUE]
    /\ UNCHANGED <<connectionStatus, myPlayer, isHost, roomCode, scores, peerRef,
                   connId, connState, offer, closeEvt, peerErr, connectionTimeoutRef,
                   initialGame, joinCount, syncLog,
                   errorMessage, retryCount,
                   chatMessages, handlerPlayer, opponentName>>

\* A faulty leaveRoom: the connect-timeout is left pending.
leaveRoomKeepsTimer(p) ==
    /\ cleanupTransport(p, "none")
    /\ connectionStatus' = [connectionStatus EXCEPT ![p] = "disconnected"]
    /\ myPlayer' = [myPlayer EXCEPT ![p] = Null]
    /\ isHost' = [isHost EXCEPT ![p] = FALSE]
    /\ roomCode' = [roomCode EXCEPT ![p] = ""]
    /\ starter' = [starter EXCEPT ![p] = "X"]
    /\ gameState' = [gameState EXCEPT ![p] = DefaultGameState]
    /\ scores' = [scores EXCEPT ![p] = ZeroScores]
    /\ resetUsed' = [resetUsed EXCEPT ![p] = FALSE]
    /\ chatMessages' = [chatMessages EXCEPT ![p] = <<>>]
    /\ opponentName' = [opponentName EXCEPT ![p] = DefaultOpponentName]
    /\ UNCHANGED <<connectionTimeoutRef, initialGame, joinCount, syncLog, errorMessage,
                   retryCount, handlerPlayer>>

\* leaveRoom: cleanup().  Closing an open connection runs its 'close'
\* handler at once, which sets the error message.
leaveRoom(p) ==
    /\ cleanupTransport(p, "none")
    /\ connectionTimeoutRef' = IF p = "J" THEN FALSE ELSE connectionTimeoutRef
    /\ connectionStatus' = [connectionStatus EXCEPT ![p] = "disconnected"]
    /\ myPlayer' = [myPlayer EXCEPT ![p] = Null]
    /\ isHost' = [isHost EXCEPT ![p] = FALSE]
    /\ roomCode' = [roomCode EXCEPT ![p] = ""]
    /\ starter' = [starter EXCEPT ![p] = "X"]
    /\ gameState' = [gameState EXCEPT ![p] = DefaultGameState]
    /\ scores' = [scores EXCEPT ![p] = ZeroScores]
    /\ resetUsed' = [resetUsed EXCEPT ![p] = FALSE]
    /\ errorMessage' =
          IF connState[p] = "open"
          THEN [errorMessage EXCEPT ![p] =
                  IF p = "H" THEN OpponentDisconnected ELSE HostDisconnected]
          ELSE errorMessage
    /\ chatMessages' = [chatMessages EXCEPT ![p] = <<>>]
    /\ opponentName' = [opponentName EXCEPT ![p] = DefaultOpponentName]
    /\ UNCHANGED <<initialGame, joinCount, syncLog, retryCount, handlerPlayer>>

\* sendChat: the message is appended to the local log and sent.
sendChat(p, text) ==
    /\ IF connectionStatus[p] = "connected" /\ myPlayer[p] # Null
       THEN /\ chatMessages' = [chatMessages EXCEPT ![p] =
                    appendChatMessage(@, [from |-> myPlayer[p], text |-> text])]
            /\ chan' = sendMessage(p, <<[type |-> "CHAT", from |-> myPlayer[p],
                                         text |-> text]>>)
       ELSE UNCHANGED <<chatMessages, chan>>
    /\ UNCHANGED <<gameState, connectionStatus, myPlayer, isHost, roomCode, scores,
                   starter, peerRef, connId, connState, offer, closeEvt, peerErr,
                   connectionTimeoutRef, initialGame, joinCount, resetUsed, syncLog,
                   errorMessage, retryCount, heartbeat, handlerPlayer, opponentName>>

\* What the client at the other end, of this or another version, can send
\* over an open connection at any time: a PING, a PONG, a message of a type this
\* version does not know, the CHAT of older clients, which carries the text
\* only, and a HANDSHAKE, without or with a configuration.
ForeignMessages ==
    {[type |-> "PING"],
     [type |-> "PONG"],
     [type |-> "REMATCH"],
     [type |-> "CHAT", from |-> Null, text |-> "hi"],
     [type |-> "HANDSHAKE", name |-> "", gridSize |-> 0, winCondition |-> 0],
     [type |-> "HANDSHAKE", name |-> "Eve", gridSize |-> 4, winCondition |-> 4]}

\* The other end of p's open connection sends msg.
remoteSends(p, msg) ==
    /\ connState[p] = "open"
    /\ linked(p)
    /\ connState[otherPeer(p)] = "open"
    /\ chan' = [chan EXCEPT ![p] = Append(@, msg)]
    /\ UNCHANGED <<gameState, connectionStatus, myPlayer, isHost, roomCode, scores,
                   starter, peerRef, connId, connState, offer, closeEvt, peerErr,
                   connectionTimeoutRef, initialGame, joinCount, resetUsed, syncLog,
                   errorMessage, retryCount, heartbeat, chatMessages, handlerPlayer,
                   opponentName>>

\* A faulty heartbeat effect: it has no cleanup, so the interval of an
\* earlier stay in Connected keeps running.
heartbeatEffectNoCleanup ==
    heartbeat' = [p \in Peers |->
        IF connectionStatus'[p] = connectionStatus[p]
        THEN heartbeat[p]
        ELSE IF connectionStatus'[p] = "connected" /\ connId'[p] # 0
        THEN heartbeat[p] + 1
        ELSE heartbeat[p]]

\* The heartbeat effect, run with the commit of a render in which
\* connectionStatus has changed: the cleanup of the previous run clears its
\* interval, and an interval is set when the status is connected and
\* connRef holds a connection.
heartbeatEffect ==
    heartbeat' = [p \in Peers |->
        IF connectionStatus'[p] = connectionStatus[p]
        THEN heartbeat[p]
        ELSE IF connectionStatus'[p] = "connected" /\ connId'[p] # 0
        THEN 1
        ELSE 0]

\* A tick of the heartbeat interval of p: sendMessage({ type: 'PING' }).
heartbeatTick(p) ==
    /\ heartbeat[p] > 0
    /\ chan' = sendMessage(p, <<[type |-> "PING"]>>)
    /\ UNCHANGED <<gameState, connectionStatus, myPlayer, isHost, roomCode, scores,
                   starter, peerRef, connId, connState, offer, closeEvt, peerErr,
                   connectionTimeoutRef, initialGame, joinCount, resetUsed, syncLog,
                   errorMessage, retryCount, heartbeat,
                   chatMessages, handlerPlayer, opponentName>>

\* ------------------------------------------------------ the App (App.tsx)
VARIABLES
    mode,     \* each browser's screen mode: "welcome", "multiplayer" or "ai"
    opCount,  \* user-interface callbacks that had an effect so far
    probe     \* the last applyMoveToGameState call observed in isolation

appVars == <<mode, opCount, probe>>
vars == <<aiVars, netVars, appVars>>

NoProbe == [called |-> FALSE]

AppInit ==
    /\ mode = [p \in Peers |-> "welcome"]
    /\ opCount = 0
    /\ probe = NoProbe

\* The GameBoard is rendered.
showsBoard(p) == mode[p] = "multiplayer" /\ connectionStatus[p] = "connected"

isWaitingForOpponent(p) ==
    /\ mode[p] = "multiplayer"
    /\ isHost[p]
    /\ roomCode[p] # ""
    /\ connectionStatus[p] = "disconnected"

\* renderContent() returns the WelcomeScreen.
showsWelcome(p) ==
    /\ ~showsBoard(p)
    /\ ~isWaitingForOpponent(p)
    /\ mode[p] # "ai"
    /\ (mode[p] = "welcome" \/ connectionStatus[p] \in {"disconnected", "error"})

\* A screen with a Cancel or Leave button of the multiplayer mode is rendered.
showsLeave(p) ==
    /\ mode[p] = "multiplayer"
    /\ (showsBoard(p) \/ isWaitingForOpponent(p) \/ connectionStatus[p] = "connecting")

\* The user invokes one more callback; one that returns early is not counted.
countOp(max) ==
    /\ opCount < max
    /\ opCount' = IF <<aiVars, netVars, mode>>' = <<aiVars, netVars, mode>>
                  THEN opCount
                  ELSE opCount + 1

userOp == countOp(MaxOps)
aiUserOp == countOp(MaxAiOps)

\* The AI games the welcome screen starts: the 3x3 board, at the easy level
\* (whose engine can return every empty cell) and at the hard level.
EasyConfig == [gridSize |-> 3, winCondition |-> 3, difficulty |-> "easy"]
HardConfig == [gridSize |-> 3, winCondition |-> 3, difficulty |-> "hard"]

\* WelcomeScreen.onCreate in the browser H.
onCreate(gridSize, winCondition, code) ==
    /\ showsWelcome("H")
    /\ mode' = [mode EXCEPT !["H"] = "multiplayer"]
    /\ createRoom(gridSize, winCondition, code)
    /\ heartbeatEffect
    /\ UNCHANGED <<aiVars, probe>>
    /\ userOp

\* WelcomeScreen.onJoin in the browser J.
onJoin(code) ==
    /\ showsWelcome("J")
    /\ mode' = [mode EXCEPT !["J"] = "multiplayer"]
    /\ joinRoom(code)
    /\ heartbeatEffect
    /\ UNCHANGED <<aiVars, probe>>
    /\ userOp

\* WelcomeScreen.onStartAi in the browser H.
onStartAi(next) ==
    /\ showsWelcome("H")
    /\ mode' = [mode EXCEPT !["H"] = "ai"]
    /\ aiStart(next)
    /\ UNCHANGED <<netVars, probe>>
    /\ aiUserOp

\* GameBoard.onMove.
onMove(p, index) ==
    /\ showsBoard(p)
    /\ makeMove(p, index)
    /\ heartbeatEffect
    /\ UNCHANGED <<aiVars, mode, probe>>
    /\ userOp

\* GameBoard.onReset.
onReset(p) ==
    /\ showsBoard(p)
    /\ resetGame(p)
    /\ heartbeatEffect
    /\ UNCHANGED <<aiVars, mode, probe>>
    /\ userOp

\* onLeave of the GameBoard and the Cancel buttons.
onLeave(p) ==
    /\ showsLeave(p)
    /\ leaveRoom(p)
    /\ heartbeatEffect
    /\ mode' = [mode EXCEPT ![p] = "welcome"]
    /\ UNCHANGED <<aiVars, probe>>
    /\ userOp

\* SinglePlayerBoard.onMove.
aiOnMove(index) ==
    /\ mode["H"] = "ai"
    /\ aiMakeMove(index)
    /\ UNCHANGED <<netVars, mode, probe>>
    /\ aiUserOp

\* SinglePlayerBoard.onReset.
aiOnReset ==
    /\ mode["H"] = "ai"
    /\ aiResetGame
    /\ UNCHANGED <<netVars, mode, probe>>
    /\ aiUserOp

\* SinglePlayerBoard.onLeave.
aiOnLeave ==
    /\ mode["H"] = "ai"
    /\ aiLeave
    /\ mode' = [mode EXCEPT !["H"] = "welcome"]
    /\ UNCHANGED <<netVars, probe>>
    /\ aiUserOp

\* The effect and the timer of useAIGame, with the search deadline not reached.
aiEffectStep ==
    /\ AiTurnEffect(FALSE)
    /\ UNCHANGED <<netVars, appVars>>

aiTimerStep ==
    /\ AiTimerFire(FALSE)
    /\ UNCHANGED <<netVars, appVars>>

\* The callbacks usePeerGame returns, called on the hook itself: by a
\* component that holds them, whatever screen the App shows.
callCreateRoom(gridSize, winCondition, code) ==
    /\ createRoom(gridSize, winCondition, code)
    /\ heartbeatEffect
    /\ UNCHANGED <<aiVars, mode, probe>>
    /\ userOp

callJoinRoom(code) ==
    /\ joinRoom(code)
    /\ heartbeatEffect
    /\ UNCHANGED <<aiVars, mode, probe>>
    /\ userOp

callMakeMove(p, index) ==
    /\ makeMove(p, index)
    /\ heartbeatEffect
    /\ UNCHANGED <<aiVars, mode, probe>>
    /\ userOp

callLeaveRoom(p) ==
    /\ leaveRoom(p)
    /\ heartbeatEffect
    /\ UNCHANGED <<aiVars, mode, probe>>
    /\ userOp

aiEffectAgainStep ==
    /\ AiTurnEffectAgain
    /\ UNCHANGED <<netVars, appVars>>

\* The events of the transport and of the connect-timeout.
hostPeerOpenEv == hostPeerOpen /\ heartbeatEffect /\ UNCHANGED <<aiVars, appVars>>
hostPeerErrorEv(type, code) == hostPeerError(type, code) /\ heartbeatEffect /\ UNCHANGED <<aiVars, appVars>>
joinerPeerOpenEv == joinerPeerOpen /\ heartbeatEffect /\ UNCHANGED <<aiVars, appVars>>
joinerPeerErrorEv == joinerPeerError /\ heartbeatEffect /\ UNCHANGED <<aiVars, appVars>>
joinerPeerFaultEv == joinerPeerFault /\ UNCHANGED <<aiVars, appVars>>
connectTimeoutEv == connectTimeout /\ heartbeatEffect /\ UNCHANGED <<aiVars, appVars>>
hostOnConnectionEv == hostOnConnection /\ heartbeatEffect /\ UNCHANGED <<aiVars, appVars>>
hostConnOpenEv == hostConnOpen /\ heartbeatEffect /\ UNCHANGED <<aiVars, appVars>>
joinerConnOpenEv == joinerConnOpen /\ heartbeatEffect /\ UNCHANGED <<aiVars, appVars>>
connCloseEv(p) == connClose(p) /\ heartbeatEffect /\ UNCHANGED <<aiVars, appVars>>
handleDataEv(p) == handleData(p) /\ heartbeatEffect /\ UNCHANGED <<aiVars, appVars>>

heartbeatTickEv(p) ==
    /\ Len(chan[otherPeer(p)]) < MaxInFlight
    /\ heartbeatTick(p)
    /\ UNCHANGED <<aiVars, appVars>>

\* The chat input of the GameBoard.
onSendChat(p, text) ==
    /\ showsBoard(p)
    /\ Len(chatMessages[p]) < MaxChat
    /\ Len(chan[otherPeer(p)]) < MaxForeign
    /\ sendChat(p, text)
    /\ UNCHANGED <<aiVars, mode, probe>>
    /\ userOp

remoteSendsEv(p, msg) ==
    /\ Len(chan[p]) < MaxForeign
    /\ Len(chatMessages[p]) < MaxChat
    /\ remoteSends(p, msg)
    /\ UNCHANGED <<aiVars, appVars>>

\* handleData, the message it was called with being recorded.
handleDataSeen(p) ==
    /\ handleData(p)
    /\ heartbeatEffect
    /\ probe' = [called |-> TRUE, peer |-> p, msg |-> Head(chan[p])]
    /\ UNCHANGED <<aiVars, mode, opCount>>

\* applyMoveToGameState called on its own: on the state the previous call
\* returned, with any cell and either player.
probeMove(index, player) ==
    /\ probe' = [called |-> TRUE,
                 prev |-> probe.out.nextState,
                 index |-> index,
                 player |-> player,
                 out |-> applyMoveToGameState(probe.out.nextState, index, player)]
    /\ UNCHANGED <<aiVars, netVars, mode, opCount>>

\* The engine called on its own.  The board is built by alternate placements,
\* X first, played on through wins; on each board built, chooseAiMove is
\* called for either aiPlayer at every level, with the deadline passed (late)
\* or, on the boards with few enough empty cells for the search to be
\* followed, not reached.
SearchedEmpties == 0..4

emptyCells(board) == {i \in DOMAIN board : board[i] = Null}

nextMark(board) ==
    IF Cardinality({i \in DOMAIN board : board[i] = "X"})
         = Cardinality({i \in DOMAIN board : board[i] = "O"})
    THEN "X"
    ELSE "O"

probePlace(index) ==
    /\ ~probe.asked
    /\ index \in emptyCells(probe.board)
    /\ probe' = [asked |-> FALSE,
                 board |-> applyMove(probe.board, index, nextMark(probe.board))]
    /\ UNCHANGED <<aiVars, netVars, mode, opCount>>

probeChoose(ai, late) ==
    /\ ~probe.asked
    /\ (late \/ Cardinality(emptyCells(probe.board)) \in SearchedEmpties)
    /\ probe' = [asked |-> TRUE,
                 board |-> probe.board,
                 ai |-> ai,
                 late |-> late,
                 moves |-> [l \in Levels |->
                              chooseAiMove(probe.board, 3, 3, ai, l, late)],
                 scored |-> [l \in Levels \ {"easy"} |->
                               rootScores(probe.board, 3, 3, ai, l, late)]]
    /\ UNCHANGED <<aiVars, netVars, mode, opCount>>

\* The search called on its own, the deadline not reached: on each board
\* built with at most DeepEmpties empty cells, for either aiPlayer, at every
\* depth up to the number of empty cells (the depth chooseAiMove uses on the
\* 3x3 board).
DeepEmpties == 6

probeSearch(ai, depth) ==
    /\ ~probe.asked
    /\ Cardinality(emptyCells(probe.board)) <= DeepEmpties
    /\ depth \in 1..Cardinality(emptyCells(probe.board))
    /\ probe' = [asked |-> TRUE,
                 board |-> probe.board,
                 ai |-> ai,
                 depth |-> depth,
                 scored |-> searchScores(probe.board, 3, 3, ai, depth, FALSE)]
    /\ UNCHANGED <<aiVars, netVars, mode, opCount>>

\* checkWinner and isForcedDraw called on their own, on a board that grows by
\* one mark of either player at a time.
boardProbe(board, winCondition) ==
    [board |-> board,
     winCondition |-> winCondition,
     check |-> checkWinner(board, winCondition),
     forced |-> [p \in Players |-> isForcedDraw(board, winCondition, p)]]

probeMark(index, mark) ==
    /\ index \in emptyCells(probe.board)
    /\ probe' = boardProbe(applyMove(probe.board, index, mark), probe.winCondition)
    /\ UNCHANGED <<aiVars, netVars, mode, opCount>>

\* evaluateBoard called on its own, for either player, on a board of any
\* marks that grows by one mark of either player at a time up to
\* MaxEvalMarks marks; the contribution of each combination is kept with
\* the score.
MaxEvalMarks == 4

evalProbe(board, gridSize, winCondition) ==
    [board |-> board,
     gridSize |-> gridSize,
     winCondition |-> winCondition,
     score |-> [p \in Players |-> evaluateBoard(board, gridSize, winCondition, p)],
     parts |-> [p \in Players |->
                  [j \in 1..Len(Combos(gridSize, winCondition)) |->
                      comboScore(board, Combos(gridSize, winCondition)[j], p)]]]

probeEvaluate(index, mark) ==
    /\ index \in emptyCells(probe.board)
    /\ Cardinality(DOMAIN probe.board \ emptyCells(probe.board)) < MaxEvalMarks
    /\ probe' = evalProbe(applyMove(probe.board, index, mark),
                          probe.gridSize, probe.winCondition)
    /\ UNCHANGED <<aiVars, netVars, mode, opCount>>

\* getWinningCombinations called on its own, its result read entry by entry.
ComboSizes == 3..6

probeCombos(size, winLength) ==
    /\ probe' = [size |-> size,
                 winLength |-> winLength,
                 combos |-> getWinningCombinations(size, winLength),
                 at |-> 1]
    /\ UNCHANGED <<aiVars, netVars, mode, opCount>>

probeNextCombo ==
    /\ probe.at < Len(probe.combos)
    /\ probe' = [probe EXCEPT !.at = @ + 1]
    /\ UNCHANGED <<aiVars, netVars, mode, opCount>>

\* ---------------------------------------------------------- specifications
\* The App: two browsers, H creating rooms and J joining them, and the AI
\* mode of H at the easy level.  The two browsers are followed through one
\* mode at a time: an AI game is what H does first, and J joins while H is
\* not in an AI game.
Init == AiInit /\ NetInit /\ AppInit

Next ==
    \/ \E cfg \in RoomConfigs, code \in HostCodes : onCreate(cfg[1], cfg[2], code)
    \/ \E code \in RoomCodes : (mode["H"] # "ai" /\ onJoin(code))
    \/ (opCount = 0 /\ onStartAi(EasyConfig))
    \/ \E p \in Peers, index \in MoveCells : onMove(p, index)
    \/ \E p \in Peers : onReset(p)
    \/ \E p \in Peers : onLeave(p)
    \/ \E index \in MoveCells : aiOnMove(index)
    \/ aiOnReset
    \/ aiOnLeave
    \/ aiEffectStep
    \/ aiTimerStep
    \/ hostPeerOpenEv
    \/ joinerPeerOpenEv
    \/ joinerPeerErrorEv
    \/ connectTimeoutEv
    \/ hostOnConnectionEv
    \/ hostConnOpenEv
    \/ joinerConnOpenEv
    \/ \E p \in Peers : connCloseEv(p)
    \/ \E p \in Peers : handleDataEv(p)

Spec == Init /\ [][Next]_vars

\* The AI mode alone, at the hard level, the user clicking any cell.
NextHard ==
    \/ onStartAi(HardConfig)
    \/ \E index \in 0..8 : aiOnMove(index)
    \/ aiOnReset
    \/ aiOnLeave
    \/ aiEffectStep
    \/ aiTimerStep

SpecHard == Init /\ [][NextHard]_vars

\* The AI mode alone, at the easy level (the engine can answer with any
\* empty cell), the AI turn loop run again at will.
NextAi ==
    \/ onStartAi(EasyConfig)
    \/ \E index \in MoveCells : aiOnMove(index)
    \/ aiOnReset
    \/ aiOnLeave
    \/ aiEffectStep
    \/ aiEffectAgainStep
    \/ aiTimerStep

SpecAi == Init /\ [][NextAi]_vars

\* The same, with the browser's scheduling: React runs an effect whose
\* dependencies have changed after the commit, and a timer that stays
\* pending fires.  This is WF_vars(aiEffectStep) /\ WF_vars(aiTimerStep)
\* with each ENABLED written as the state predicate it amounts to: the
\* effect can run exactly when it is due, a timer can fire exactly when one
\* is pending.
FairAi ==
    /\ []<>(~aiEffectDue) \/ []<><<aiEffectStep>>_vars
    /\ []<>(timers = EmptyBag) \/ []<><<aiTimerStep>>_vars

NextAiLive ==
    \/ (opCount < MaxLiveOps /\ onStartAi(EasyConfig))
    \/ \E index \in MoveCells : (opCount < MaxLiveOps /\ aiOnMove(index))
    \/ (opCount < MaxLiveOps /\ aiOnReset)
    \/ (opCount < MaxLiveOps /\ aiOnLeave)
    \/ aiEffectStep
    \/ aiEffectAgainStep
    \/ aiTimerStep

SpecAiLive == Init /\ [][NextAiLive]_vars /\ FairAi

\* Board configurations of the rooms of the smaller specifications.
JoinConfigs == {<<3, 3>>, <<4, 4>>}

\* The host alone: rooms created and left, the transport opening the
\* endpoint, reporting its identifier as taken or failing otherwise.
HostErrors == {"unavailable-id", "network"}

NextCreate ==
    \/ \E cfg \in JoinConfigs, code \in RoomCodes : onCreate(cfg[1], cfg[2], code)
    \/ \E type \in HostErrors, code \in RoomCodes : hostPeerErrorEv(type, code)
    \/ hostPeerOpenEv
    \/ onLeave("H")

SpecCreate == Init /\ [][NextCreate]_vars

\* The hook of each browser used directly: one room, one join with its
\* code, moves and leaves at any time, every transport event in any order.
NextHook ==
    \/ \E cfg \in RoomConfigs, code \in HostCodes :
          (roomCode["H"] = "" /\ callCreateRoom(cfg[1], cfg[2], code))
    \/ \E code \in HostCodes : (joinCount = 0 /\ callJoinRoom(code))
    \/ \E p \in Peers, index \in MoveCells : callMakeMove(p, index)
    \/ \E p \in Peers : (roomCode[p] # "" /\ callLeaveRoom(p))
    \/ hostPeerOpenEv
    \/ joinerPeerOpenEv
    \/ joinerPeerErrorEv
    \/ connectTimeoutEv
    \/ hostOnConnectionEv
    \/ hostConnOpenEv
    \/ joinerConnOpenEv
    \/ \E p \in Peers : connCloseEv(p)
    \/ \E p \in Peers : handleDataEv(p)

SpecHook == Init /\ [][NextHook]_vars

\* Sessions without a game: a room created, joined, left and joined again,
\* every transport event in any order, the joiner's endpoint failing at any
\* time after it has opened, the heartbeat intervals ticking.
NextBeat ==
    \/ \E cfg \in RoomConfigs, code \in HostCodes : onCreate(cfg[1], cfg[2], code)
    \/ \E code \in HostCodes : onJoin(code)
    \/ \E p \in Peers : onLeave(p)
    \/ hostPeerOpenEv
    \/ joinerPeerOpenEv
    \/ joinerPeerErrorEv
    \/ connectTimeoutEv
    \/ hostOnConnectionEv
    \/ hostConnOpenEv
    \/ joinerConnOpenEv
    \/ \E p \in Peers : connCloseEv(p)
    \/ \E p \in Peers : handleDataEv(p)
    \/ \E p \in Peers : heartbeatTickEv(p)
    \/ joinerPeerFaultEv

SpecBeat == Init /\ [][NextBeat]_vars

\* A session in mid-game: the host created a 3x3 room with code "100", the
\* joiner joined, every handshake was delivered and four moves were made
\* and delivered.  X (the host) is to move and wins at cell 2.
\*     X X .
\*     O O .
\*     . . .
MidGame ==
    [getInitialGameState("X", 3, 3) EXCEPT
        !.board = [i \in 0..8 |->
                      IF i \in {0, 1} THEN "X"
                      ELSE IF i \in {3, 4} THEN "O"
                      ELSE Null]]

NetMidGame ==
    /\ gameState = [p \in Peers |-> MidGame]
    /\ connectionStatus = [p \in Peers |-> "connected"]
    /\ myPlayer = [p \in Peers |-> IF p = "H" THEN "X" ELSE "O"]
    /\ isHost = [p \in Peers |-> p = "H"]
    /\ roomCode = [p \in Peers |-> "100"]
    /\ scores = [p \in Peers |-> ZeroScores]
    /\ starter = [p \in Peers |-> "X"]
    /\ peerRef = [p \in Peers |-> "open"]
    /\ connId = [p \in Peers |-> 1]
    /\ connState = [p \in Peers |-> "open"]
    /\ offer = 0
    /\ chan = [p \in Peers |-> <<>>]
    /\ closeEvt = [p \in Peers |-> FALSE]
    /\ peerErr = [p \in Peers |-> Null]
    /\ connectionTimeoutRef = FALSE
    /\ initialGame = getInitialGameState("X", 3, 3)
    /\ joinCount = 1
    /\ resetUsed = [p \in Peers |-> FALSE]
    /\ syncLog = [made |-> TRUE, sent |-> initialGame, held |-> initialGame]
    /\ errorMessage = [p \in Peers |-> Null]
    /\ retryCount = 0
    /\ heartbeat = [p \in Peers |-> 1]
    /\ chatMessages = [p \in Peers |-> <<>>]
    /\ handlerPlayer = [p \in Peers |-> Null]
    /\ opponentName = [p \in Peers |-> PlayerNames[otherPeer(p)]]

\* The App from that position on, the callbacks counted from there: moves
\* and resets on both sides, the joiner leaving and joining again, each
\* message and transport event delivered at any later time.
InitScores ==
    /\ AiInit
    /\ NetMidGame
    /\ mode = [p \in Peers |-> "multiplayer"]
    /\ opCount = 0
    /\ probe = NoProbe

NextScores ==
    \/ \E p \in Peers, index \in MoveCells : (opCount < MaxLateOps /\ onMove(p, index))
    \/ \E p \in Peers : (opCount < MaxLateOps /\ onReset(p))
    \/ (opCount < MaxLateOps /\ onLeave("J"))
    \/ \E code \in RoomCodes : (opCount < MaxLateOps /\ onJoin(code))
    \/ joinerPeerOpenEv
    \/ hostOnConnectionEv
    \/ hostConnOpenEv
    \/ joinerConnOpenEv
    \/ \E p \in Peers : connCloseEv(p)
    \/ \E p \in Peers : handleDataEv(p)

SpecScores == InitScores /\ [][NextScores]_vars

\* The session in mid-game from then on: chat sent on both sides, the
\* other end sending its heartbeat and the messages of other client
\* versions, either side leaving, every message delivered at any later time.
NextChat ==
    \/ \E p \in Peers : (opCount < MaxLateOps /\ onSendChat(p, "yo"))
    \/ \E p \in Peers : (opCount < MaxLateOps /\ onLeave(p))
    \/ \E p \in Peers, msg \in ForeignMessages : remoteSendsEv(p, msg)
    \/ \E p \in Peers : connCloseEv(p)
    \/ \E p \in Peers : handleDataSeen(p)

SpecChat == InitScores /\ [][NextChat]_vars

\* One room and one join with the room's code, made once the host's
\* endpoint is open, and no transport error: every transport event that is
\* due happens.

NextJoin ==
    \/ \E cfg \in JoinConfigs, code \in HostCodes : onCreate(cfg[1], cfg[2], code)
    \/ \E code \in HostCodes : (peerRef["H"] = "open" /\ joinCount = 0 /\ onJoin(code))
    \/ \E p \in Peers, index \in MoveCells : onMove(p, index)
    \/ hostPeerOpenEv
    \/ joinerPeerOpenEv
    \/ connectTimeoutEv
    \/ hostOnConnectionEv
    \/ hostConnOpenEv
    \/ joinerConnOpenEv
    \/ \E p \in Peers : handleDataEv(p)

FairJoin ==
    /\ WF_vars(hostPeerOpenEv)
    /\ WF_vars(joinerPeerOpenEv)
    /\ WF_vars(hostOnConnectionEv)
    /\ WF_vars(hostConnOpenEv)
    /\ WF_vars(joinerConnOpenEv)
    /\ \A p \in Peers : WF_vars(handleDataEv(p))

SpecJoin == Init /\ [][NextJoin]_vars /\ FairJoin

\* applyMoveToGameState alone, over every 3x3 game from either starter.
InitMove ==
    /\ AiInit
    /\ NetInit
    /\ mode = [p \in Peers |-> "welcome"]
    /\ opCount = 0
    /\ \E s \in Players :
          probe = [called |-> FALSE,
                   prev |-> getInitialGameState(s, 3, 3),
                   index |-> 0,
                   player |-> s,
                   out |-> [nextState |-> getInitialGameState(s, 3, 3),
                            winnerJustHappened |-> Null]]

NextMove == \E index \in 0..8, player \in Players : probeMove(index, player)

SpecMove == InitMove /\ [][NextMove]_vars

\* A 3x3 board of alternate play with two cells left.
\*     X O X
\*     O X .
\*     O X .
LateGame3 ==
    [i \in 0..8 |->
        IF i \in {0, 2, 4, 7} THEN "X"
        ELSE IF i \in {1, 3, 6} THEN "O"
        ELSE Null]

\* chooseAiMove alone, over the 3x3 boards of alternate play, followed from
\* the empty board and from a late position.
InitEngine ==
    /\ AiInit
    /\ NetInit
    /\ mode = [p \in Peers |-> "welcome"]
    /\ opCount = 0
    /\ \/ probe = [asked |-> FALSE, board |-> getInitialGameState("X", 3, 3).board]
       \/ probe = [asked |-> FALSE, board |-> LateGame3]

NextEngine ==
    \/ \E index \in 0..8 : probePlace(index)
    \/ \E ai \in Players, late \in BOOLEAN : probeChoose(ai, late)

SpecEngine == InitEngine /\ [][NextEngine]_vars

\* The evaluation called on its own on the 3x3 board and on the 4x4 board
\* with lines of three and of four.
EvalConfigs == {<<3, 3>>, <<4, 3>>, <<4, 4>>}

InitEval ==
    /\ AiInit
    /\ NetInit
    /\ mode = [p \in Peers |-> "welcome"]
    /\ opCount = 0
    /\ \E cfg \in EvalConfigs :
          probe = evalProbe(getInitialGameState("X", cfg[1], cfg[2]).board, cfg[1], cfg[2])

NextEval == \E index \in 0..15, mark \in Players : probeEvaluate(index, mark)

SpecEval == InitEval /\ [][NextEval]_vars

\* The search called on its own on the boards of the 3x3 game.
InitSearch ==
    /\ AiInit
    /\ NetInit
    /\ mode = [p \in Peers |-> "welcome"]
    /\ opCount = 0
    /\ probe = [asked |-> FALSE, board |-> getInitialGameState("X", 3, 3).board]

NextSearch ==
    \/ \E index \in 0..8 : probePlace(index)
    \/ \E ai \in Players, depth \in 1..DeepEmpties : probeSearch(ai, depth)

SpecSearch == InitSearch /\ [][NextSearch]_vars

\* A 4x4 board of a four-in-a-row game, nine marks placed, on which the
\* bottom row, the third column and the anti-diagonal are still open.
\*     X X . O
\*     O O . X
\*     X . O .
\*     . X . .
Started4 ==
    [i \in 0..15 |->
        IF i \in {0, 1, 7, 8, 13} THEN "X"
        ELSE IF i \in {3, 4, 5, 10} THEN "O"
        ELSE Null]

\* checkWinner and isForcedDraw alone: every 3x3 board of a three-in-a-row
\* game and the 4x4 boards that extend Started4.
InitBoard ==
    /\ AiInit
    /\ NetInit
    /\ mode = [p \in Peers |-> "welcome"]
    /\ opCount = 0
    /\ \/ probe = boardProbe(getInitialGameState("X", 3, 3).board, 3)
       \/ probe = boardProbe(Started4, 4)

NextBoard == \E index \in 0..15, mark \in Players : probeMark(index, mark)

SpecBoard == InitBoard /\ [][NextBoard]_vars

\* getWinningCombinations alone, for every board size and every win length.
InitCombos ==
    /\ AiInit
    /\ NetInit
    /\ mode = [p \in Peers |-> "welcome"]
    /\ opCount = 0
    /\ probe = [size |-> 3, winLength |-> 3,
                combos |-> getWinningCombinations(3, 3), at |-> 1]

NextCombos ==
    \/ \E size \in ComboSizes, winLength \in 3..6 :
          (winLength <= size /\ probeCombos(size, winLength))
    \/ probeNextCombo

SpecCombos == InitCombos /\ [][NextCombos]_vars

\* -------------------------------------------------------------- properties
Ended(gs) == gs.status \in {"winner", "draw"}
Marks(gs) == Cardinality({i \in DOMAIN gs.board : gs.board[i] # Null})

\* The two browsers hold the two ends of one open connection and both
\* report Connected.
InSession ==
    /\ connectionStatus["H"] = "connected"
    /\ connectionStatus["J"] = "connected"
    /\ linked("H")
    /\ connState["H"] = "open"
    /\ connState["J"] = "open"

\* Nothing is in flight in either direction.
Quiet == chan["H"] = <<>> /\ chan["J"] = <<>>

\* The session began in step: the snapshot the host sent when the
\* connection opened was the state the host held.
BeganInStep == syncLog.made /\ syncLog.sent = syncLog.held

NoResetInvolved == ~resetUsed["H"] /\ ~resetUsed["J"]

\* p's handleData step on a message whose type is in types.
Receives(p, types) ==
    /\ connState[p] = "open"
    /\ chan[p] # <<>>
    /\ Head(chan[p]).type \in types
    /\ handleData(p)

\* C1: in a connected two-peer session that began in step and in which no
\* reset is involved, whatever the interleaving of the makeMove calls of the
\* two peers, once every message has been delivered both peers hold the
\* same GameState.
C1_MovesConverge ==
    (InSession /\ Quiet /\ BeganInStep /\ NoResetInvolved)
        => gameState["H"] = gameState["J"]

C1_Witness ==
    /\ InSession /\ Quiet /\ BeganInStep /\ NoResetInvolved
    /\ Marks(gameState["H"]) >= 3
    /\ Marks(gameState["J"]) >= 3

\* C2: in a connected two-peer session that began in step, whatever the
\* interleaving of moves and resetGame calls on either side, once every
\* message has been delivered both peers hold the same GameState and agree
\* on the starter (hence on who starts the next game).
C2_ResetsConverge ==
    (InSession /\ Quiet /\ BeganInStep)
        => (gameState["H"] = gameState["J"] /\ starter["H"] = starter["J"])

\* C3: whenever the host's connection to a joiner opens, the SYNC_STATE
\* snapshot the host sends equals the GameState the host holds at that moment.
C3_SnapshotIsCurrent == syncLog.made => syncLog.sent = syncLog.held

\* The joiner has joined with the room's code.
JoinedWithCode ==
    /\ mode["J"] = "multiplayer"
    /\ peerRef["H"] = "open"
    /\ roomCode["J"] = roomCode["H"]

BothConnected ==
    connectionStatus["H"] = "connected" /\ connectionStatus["J"] = "connected"

\* C4: when the host has created a room and the joiner joins with its code
\* and no transport error occurs, both peers eventually report Connected;
\* and the delivery of the host's SYNC_STATE (which follows its HANDSHAKE)
\* leaves the joiner with the host's initial configuration: the host's
\* gridSize and winCondition, an empty board, X to move, status playing.
C4_JoinConnectsAndSyncs ==
    /\ JoinedWithCode ~> BothConnected
    /\ [][Receives("J", {"SYNC_STATE"})
             => gameState'["J"] = getInitialGameState("X", gameState["H"].gridSize,
                                                      gameState["H"].winCondition)]_vars

C4_Witness ==
    /\ BothConnected
    /\ chan["J"] = <<>>
    /\ gameState["H"].gridSize = 4
    /\ gameState["J"] = getInitialGameState("X", 4, 4)

\* The combinations of a game: K cells each, in a row, column or diagonal.
LinesOf(gs) ==
    {Combos(gs.gridSize, gs.winCondition)[j] :
        j \in 1..Len(Combos(gs.gridSize, gs.winCondition))}

WellEnded(gs) ==
    /\ gs.status = "winner" =>
          /\ gs.winner \in Players
          /\ gs.winningLine \in LinesOf(gs)
          /\ Len(gs.winningLine) = gs.winCondition
          /\ \A i \in 1..Len(gs.winningLine) : gs.board[gs.winningLine[i]] = gs.winner
    /\ gs.status = "draw" => gs.winner = Null

\* C5: in the AI mode and in the network mode, a game whose status is
\* winner has its winner set and its winningLine one of the winning
\* combinations, of winCondition cells all holding the winner's mark; a
\* game whose status is draw has no winner.
C5_EndedGamesAreWellFormed ==
    /\ WellEnded(aiGameState)
    /\ \A p \in Peers : WellEnded(gameState[p])

C5_Witness ==
    /\ gameState["H"].status = "winner"
    /\ gameState["J"].status = "winner"
    /\ Quiet

ProbeMeetsPreconditions ==
    /\ probe.called
    /\ probe.prev.status = "playing"
    /\ probe.prev.board[probe.index] = Null
    /\ probe.player = probe.prev.currentPlayer

\* C7: applyMove, its preconditions met, places the mover's mark in the
\* cell; if that completes a winning combination the status is winner with
\* the winner and the winning line set; otherwise the status is draw if the
\* board is full or isForcedDraw reports that neither player can still win
\* with the other player to move; otherwise the status stays playing and
\* currentPlayer flips.  winnerJustDecided is set exactly in the first case.
C7_ApplyMove ==
    ProbeMeetsPreconditions =>
        LET prev == probe.prev
            next == probe.out.nextState
            placed == [prev.board EXCEPT ![probe.index] = probe.player]
            completes(line) == \A i \in 1..Len(line) : placed[line[i]] = probe.player
        IN  /\ next.board = placed
            /\ next.gridSize = prev.gridSize
            /\ next.winCondition = prev.winCondition
            /\ IF \E line \in LinesOf(prev) : completes(line)
               THEN /\ next.status = "winner"
                    /\ next.winner = probe.player
                    /\ next.winningLine \in LinesOf(prev)
                    /\ completes(next.winningLine)
                    /\ probe.out.winnerJustHappened = probe.player
               ELSE /\ probe.out.winnerJustHappened = Null
                    /\ next.winner = Null
                    /\ next.winningLine = <<>>
                    /\ IF \/ \A i \in DOMAIN placed : placed[i] # Null
                          \/ isForcedDraw(placed, prev.winCondition, other(probe.player))
                       THEN next.status = "draw"
                       ELSE /\ next.status = "playing"
                            /\ next.currentPlayer = other(probe.player)

\* A forced draw declared on a board that still has an empty cell.
C7_Witness ==
    /\ ProbeMeetsPreconditions
    /\ probe.out.nextState.status = "draw"
    /\ Marks(probe.out.nextState) < 9

Sized(gs) == DOMAIN gs.board = 0..(gs.gridSize * gs.gridSize - 1)

\* The board of new is the board of old, or the empty board of a new game,
\* or the board of old with one mark placed into one empty cell.
PlacesOneMark(old, new) ==
    \/ new.board = old.board
    \/ \A i \in DOMAIN new.board : new.board[i] = Null
    \/ \E i \in DOMAIN old.board, mark \in Players :
          /\ old.board[i] = Null
          /\ new.board = [old.board EXCEPT ![i] = mark]

\* C8: the board always has gridSize * gridSize cells, and within a game
\* every change of the board (a makeMove call, a received MOVE, the AI's
\* delayed commit) places a single mark into an empty cell.
C8_BoardChangesArePlacements ==
    /\ [](Sized(aiGameState) /\ \A p \in Peers : Sized(gameState[p]))
    /\ [][/\ PlacesOneMark(aiGameState, aiGameState')
          /\ \A p \in Peers : PlacesOneMark(gameState[p], gameState'[p])]_vars

C8_Witness ==
    /\ Marks(aiGameState) >= 6
    /\ aiGameState.status = "playing"

C10_HardNeverLoses ==
    config = HardConfig =>
        /\ checkWinner(aiGameState.board, aiGameState.winCondition).winner # "X"
        /\ aiGameState.winner # "X"
        /\ aiScores["X"] = 0

\* The engine moved first and the game was played to its end.
C10_Witness ==
    /\ config = HardConfig
    /\ aiStarter = "O"
    /\ Ended(aiGameState)

\* ------------------------------------------------- properties of the engine
\* The empty cells at which p wins at once.
WinningCells(board, winCondition, p) ==
    {i \in emptyCells(board) :
        checkWinner(applyMove(board, i, p), winCondition).winner = p}

NoWinnerOn(board, winCondition) == checkWinner(board, winCondition).winner = Null

\* C11: at every level, on a board without a winner that has an empty cell
\* at which aiPlayer wins at once, chooseAiMove returns such a cell.
C11_TakesImmediateWin ==
    (/\ probe.asked
     /\ NoWinnerOn(probe.board, 3)
     /\ WinningCells(probe.board, 3, probe.ai) # {})
        => \A l \in Levels :
              /\ probe.moves[l] # {}
              /\ probe.moves[l] \subseteq WinningCells(probe.board, 3, probe.ai)

\* A board on which aiPlayer can win at two cells, asked with the deadline
\* not reached.
C11_Witness ==
    /\ probe.asked
    /\ ~probe.late
    /\ NoWinnerOn(probe.board, 3)
    /\ Cardinality(WinningCells(probe.board, 3, probe.ai)) >= 2

\* C12: at medium, hard and extreme, on a board where aiPlayer cannot win at
\* once and the opponent can, chooseAiMove returns one cell, the same on
\* every call, and the opponent would win at once there.
C12_BlocksImmediateLoss ==
    (/\ probe.asked
     /\ WinningCells(probe.board, 3, probe.ai) = {}
     /\ WinningCells(probe.board, 3, other(probe.ai)) # {})
        => \A l \in Levels \ {"easy"} :
              /\ Cardinality(probe.moves[l]) = 1
              /\ probe.moves[l] \subseteq WinningCells(probe.board, 3, other(probe.ai))

C12_Witness ==
    /\ probe.asked
    /\ ~probe.late
    /\ NoWinnerOn(probe.board, 3)
    /\ WinningCells(probe.board, 3, probe.ai) = {}
    /\ WinningCells(probe.board, 3, other(probe.ai)) # {}
    /\ Cardinality(emptyCells(probe.board)) >= 3

\* C13: at every level, on a board with an empty cell, whatever Math.random
\* yields and also when every minimaxAB call finds the deadline passed,
\* chooseAiMove returns the index of an empty cell.
C13_ReturnsAnEmptyCell ==
    (probe.asked /\ emptyCells(probe.board) # {})
        => \A l \in Levels :
              /\ probe.moves[l] # {}
              /\ probe.moves[l] \subseteq emptyCells(probe.board)

\* The deadline passed, no shortcut applying: the search branch is taken and
\* every minimaxAB call returns the static evaluation.
C13_Witness ==
    /\ probe.asked
    /\ probe.late
    /\ Cardinality(emptyCells(probe.board)) >= 5
    /\ WinningCells(probe.board, 3, probe.ai) = {}
    /\ WinningCells(probe.board, 3, other(probe.ai)) = {}

\* C14: on a board without an empty cell chooseAiMove returns no cell: its
\* result is -1, which is no index of the board.
C14_FullBoardIsRefused ==
    (probe.asked /\ emptyCells(probe.board) = {})
        => /\ NoMove \notin DOMAIN probe.board
           /\ \A l \in Levels : probe.moves[l] = {NoMove}

C14_Witness ==
    /\ probe.asked
    /\ emptyCells(probe.board) = {}
    /\ NoWinnerOn(probe.board, 3)

\* C15: extreme searches as hard does: on every board, the deadline not
\* reached, the moves extreme can return are the moves hard can return.
C15_ExtremeSearchesAsHard ==
    (probe.asked /\ ~probe.late) => probe.moves["extreme"] = probe.moves["hard"]

\* Neither shortcut of chooseAiMove applies and the board has an empty cell.
NoShortcut ==
    /\ probe.asked
    /\ emptyCells(probe.board) # {}
    /\ WinningCells(probe.board, 3, probe.ai) = {}
    /\ WinningCells(probe.board, 3, other(probe.ai)) = {}

\* The root moves of scored that score more than the move m does.
ScoredAbove(scored, m) ==
    {j \in 1..Len(scored) :
        \E h \in 1..Len(scored) : scored[h].m = m /\ scored[j].s > scored[h].s}

\* C16: when neither shortcut applies, hard returns an empty cell whose
\* search score is the greatest of the root scores, and medium returns one
\* of the three highest-scored root moves (any root move when fewer than
\* three are legal).
C16_PicksAmongTheBest ==
    NoShortcut =>
        /\ probe.moves["hard"] # {}
        /\ \A m \in probe.moves["hard"] :
              /\ m \in emptyCells(probe.board)
              /\ ScoredAbove(probe.scored["hard"], m) = {}
        /\ probe.moves["medium"] # {}
        /\ \A m \in probe.moves["medium"] :
              /\ m \in emptyCells(probe.board)
              /\ Cardinality(ScoredAbove(probe.scored["medium"], m)) < 3
        /\ Cardinality(emptyCells(probe.board)) < 3
              => probe.moves["medium"] = emptyCells(probe.board)

\* The search was run on four empty cells whose scores differ.
C16_Witness ==
    /\ NoShortcut
    /\ ~probe.late
    /\ Cardinality(emptyCells(probe.board)) = 4
    /\ \E j, h \in 1..4 : probe.scored["hard"][j].s # probe.scored["hard"][h].s

\* ------------------------------------------- properties of the board model
\* Some sequence of alternate placements, next placing first, reaches a
\* board with a winner.
RECURSIVE winReachable(_, _, _)
winReachable(board, winCondition, next) ==
    \/ checkWinner(board, winCondition).winner # Null
    \/ \E i \in emptyCells(board) :
          winReachable(applyMove(board, i, next), winCondition, other(next))

\* C17: on a board without a winner for which isForcedDraw holds, no
\* sequence of alternate placements that nextPlayer starts reaches a winner.
C17_ForcedDrawIsSound ==
    \A p \in Players :
        (probe.check.winner = Null /\ probe.forced[p])
            => ~winReachable(probe.board, probe.winCondition, p)

\* A forced draw reported with three or more cells still empty.
C17_Witness ==
    /\ probe.check.winner = Null
    /\ \E p \in Players : probe.forced[p]
    /\ Cardinality(emptyCells(probe.board)) >= 3

\* The cells of a line, and the turns a player has left when next is to
\* move: the larger half of the empty cells for next, the smaller for the
\* other player.
CellsOf(line) == {line[i] : i \in 1..Len(line)}

TurnsLeft(board, player, next) ==
    LET e == Cardinality(emptyCells(board))
    IN  IF player = next THEN e - (e \div 2) ELSE e \div 2

StillCompletable(board, winCondition, next) ==
    \E player \in Players :
        \E j \in 1..Len(Combos(SizeOf(board), winCondition)) :
            LET cells == CellsOf(Combos(SizeOf(board), winCondition)[j])
            IN  /\ \A c \in cells : board[c] # other(player)
                /\ Cardinality(cells \cap emptyCells(board))
                      <= TurnsLeft(board, player, next)

\* C18: isForcedDraw is false exactly when some combination holds no mark
\* of a player's opponent and has no more empty cells than that player has
\* turns left.
C18_ForcedDrawIsExact ==
    \A p \in Players :
        probe.forced[p] = ~StillCompletable(probe.board, probe.winCondition, p)

\* Every combination holds marks of both players, two or more cells are
\* empty, and isForcedDraw holds.
C18_Witness ==
    /\ Cardinality(emptyCells(probe.board)) >= 2
    /\ \A j \in 1..Len(Combos(SizeOf(probe.board), probe.winCondition)) :
          \A mark \in Players :
              \E c \in CellsOf(Combos(SizeOf(probe.board), probe.winCondition)[j]) :
                  probe.board[c] = mark
    /\ \A p \in Players : probe.forced[p]

\* C19: getWinningCombinations(N, K) has 2*N*(N-K+1) + 2*(N-K+1)^2 entries,
\* no two of them equal; each entry has K indices of the board whose steps
\* are all +1 within one row, all +N, all +(N+1) with the column growing by
\* one, or all +(N-1) with the column shrinking by one.
C19_CombinationsAreTheSegments ==
    LET n == probe.size
        k == probe.winLength
        combos == probe.combos
        line == combos[probe.at]
        step == line[2] - line[1]
        col(i) == line[i] % n
    IN  /\ Len(combos) = 2 * n * (n - k + 1) + 2 * (n - k + 1) * (n - k + 1)
        /\ \A j, h \in 1..Len(combos) : j # h => combos[j] # combos[h]
        /\ Len(line) = k
        /\ \A i \in 1..k : line[i] \in 0..(n * n - 1)
        /\ \A i \in 1..(k - 1) : line[i + 1] - line[i] = step
        /\ \/ step = 1 /\ \A i \in 1..k : line[i] \div n = line[1] \div n
           \/ step = n /\ \A i \in 1..k : col(i) = col(1)
           \/ step = n + 1 /\ \A i \in 1..(k - 1) : col(i + 1) = col(i) + 1
           \/ step = n - 1 /\ \A i \in 1..(k - 1) : col(i + 1) = col(i) - 1

\* The last entry for the 6x6 board and four in a row: an anti-diagonal.
C19_Witness ==
    /\ probe.size = 6
    /\ probe.winLength = 4
    /\ probe.at = Len(probe.combos)
    /\ probe.combos[probe.at][2] - probe.combos[probe.at][1] = 5

\* The combinations in the order of enumeration: the rows, the columns, the
\* down-right diagonals, the down-left diagonals.
Enumerated3 ==
    << <<0, 1, 2>>, <<3, 4, 5>>, <<6, 7, 8>>,
       <<0, 3, 6>>, <<1, 4, 7>>, <<2, 5, 8>>,
       <<0, 4, 8>>, <<2, 4, 6>> >>

Enumerated4 ==
    << <<0, 1, 2, 3>>, <<4, 5, 6, 7>>, <<8, 9, 10, 11>>, <<12, 13, 14, 15>>,
       <<0, 4, 8, 12>>, <<1, 5, 9, 13>>, <<2, 6, 10, 14>>, <<3, 7, 11, 15>>,
       <<0, 5, 10, 15>>, <<3, 6, 9, 12>> >>

Enumerated(winCondition) == IF winCondition = 3 THEN Enumerated3 ELSE Enumerated4

\* The combinations all of whose cells hold one player's mark.
CompleteIn(board, lines) ==
    {j \in 1..Len(lines) :
        \E mark \in Players : \A c \in CellsOf(lines[j]) : board[c] = mark}

\* C20: checkWinner reports a winner exactly when some combination is
\* complete, and then reports the first complete combination in the order
\* of enumeration, with the mark it holds.
C20_FirstCompleteLineWins ==
    LET lines == Enumerated(probe.winCondition)
        done == CompleteIn(probe.board, lines)
    IN  IF done = {}
        THEN probe.check = [winner |-> Null, line |-> <<>>]
        ELSE \E j \in done :
                /\ \A h \in done : j <= h
                /\ probe.check.line = lines[j]
                /\ probe.check.winner = probe.board[lines[j][1]]

\* Two complete combinations, of different players: the earlier is reported.
C20_Witness ==
    LET lines == Enumerated(probe.winCondition)
        done == CompleteIn(probe.board, lines)
    IN  \E j, h \in done :
            /\ j < h
            /\ probe.board[lines[j][1]] # probe.board[lines[h][1]]
            /\ probe.check.winner = probe.board[lines[j][1]]

\* The marks of player p on the board of gs.
MarksOf(gs, p) == Cardinality({i \in DOMAIN gs.board : gs.board[i] = p})

\* A step that writes a mark of p into a cell of the AI game's board.
AiPlaces(p) ==
    \E i \in DOMAIN aiGameState.board :
        /\ i \in DOMAIN aiGameState'.board
        /\ aiGameState.board[i] # p
        /\ aiGameState'.board[i] = p

\* C23: in the AI mode no X mark is placed while aiThinking is set, while
\* it is not X's turn, while the status is not playing, into an occupied
\* cell or while an AI move is pending: such a makeMove is ignored, and a
\* step that places an X mark places that mark only and hands the turn on.
C23_HumanMovesAreGated ==
    [][AiPlaces("X") =>
          /\ ~aiThinking
          /\ aiGameState.currentPlayer = "X"
          /\ aiGameState.status = "playing"
          /\ timers = EmptyBag
          /\ PlacesOneMark(aiGameState, aiGameState')
          /\ MarksOf(aiGameState', "X") = MarksOf(aiGameState, "X") + 1]_vars

\* The user can click while the AI's move is pending.
C23_Witness ==
    /\ aiThinking
    /\ timers # EmptyBag
    /\ aiGameState.currentPlayer = "O"
    /\ MarksOf(aiGameState, "X") >= 2
    /\ opCount < MaxAiOps

\* A step in which the AI turn loop sets a timer.
SchedulesAiMove == timeoutRef'.active /\ timeoutRef' # timeoutRef

\* C24: in the AI mode at most one AI-move timer is pending, and it is the
\* one timeoutRef refers to, set for the position the game is in; a search
\* is scheduled only on O's turn, when no timer is pending and none has been
\* scheduled for the position, however often the AI turn loop runs; and a
\* step that places an O mark is the callback of that timer placing one mark.
C24_OneSearchPerAiTurn ==
    /\ [](/\ BagCardinality(timers) <= 1
          /\ timers # EmptyBag =>
                /\ timers = SetToBag({timeoutRef})
                /\ aiGameState.currentPlayer = "O"
                /\ aiGameState.status = "playing"
                /\ timeoutRef.key = turnKey(config.difficulty, aiGameState)
                /\ scheduledForRef = timeoutRef.key)
    /\ [][/\ SchedulesAiMove =>
                /\ timers = EmptyBag
                /\ aiGameState.currentPlayer = "O"
                /\ scheduledForRef # turnKey(config.difficulty, aiGameState)
          /\ AiPlaces("O") =>
                /\ timers # EmptyBag
                /\ timers' = EmptyBag
                /\ PlacesOneMark(aiGameState, aiGameState')
                /\ MarksOf(aiGameState', "O") = MarksOf(aiGameState, "O") + 1
                /\ (aiGameState'.status = "playing" => aiGameState'.currentPlayer = "X")]_vars

\* The AI turn loop is about to run again while the AI's move is pending.
C24_Witness ==
    /\ timers # EmptyBag
    /\ aiEffectDue
    /\ Marks(aiGameState) >= 3

\* A leave or a resetGame of the AI mode with a game configured.
AiLeavesOrResets ==
    \/ config # NoConfig /\ config' = NoConfig
    \/ config # NoConfig /\ aiStarter' # aiStarter

\* C27: in the AI mode a leave or a resetGame leaves no AI-move timer
\* pending, and every O mark placed is placed by a timer that was set for
\* the position the game is in: a move computed for an earlier game's
\* position is never applied.
C27_CancelledMovesNeverApply ==
    [][/\ AiLeavesOrResets => (timers' = EmptyBag /\ ~timeoutRef'.active)
       /\ AiPlaces("O") =>
             \E t \in BagToSet(timers) :
                 /\ t.key = turnKey(config.difficulty, aiGameState)
                 /\ timers' = timers (-) SetToBag({t})
                 /\ aiGameState'.board \in
                       {applyMove(aiGameState.board, t.move, "O")}]_vars

\* A resetGame found an AI move pending, and the AI has since moved first
\* in the new game.
C27_Witness ==
    /\ cancelledPending
    /\ aiStarter = "O"
    /\ MarksOf(aiGameState, "O") = 1
    /\ MarksOf(aiGameState, "X") = 0

\* The transport reports the identifier of the host's endpoint as taken.
IdReportedTaken == \E code \in RoomCodes : hostPeerError("unavailable-id", code)

\* C28: when the transport reports the host identifier as unavailable,
\* createRoom retries with a newly drawn room code on a new endpoint, for
\* the same board, as long as fewer than 5 retries have been made; at the
\* sixth report it retries no more and the session is in Error with the
\* could-not-allocate message; the retries of one createRoom never exceed 5.
C28_RoomCodeRetriesAreBounded ==
    /\ [](retryCount <= 5)
    /\ [][IdReportedTaken =>
             IF retryCount < 5
             THEN /\ retryCount' = retryCount + 1
                  /\ connectionStatus'["H"] = "connecting"
                  /\ peerRef'["H"] = "opening"
                  /\ roomCode'["H"] \in RoomCodes
                  /\ errorMessage'["H"] = Null
                  /\ gameState'["H"] = getInitialGameState("X", gameState["H"].gridSize,
                                                           gameState["H"].winCondition)
             ELSE /\ retryCount' = retryCount
                  /\ connectionStatus'["H"] = "error"
                  /\ errorMessage'["H"] = UnableToGenerateCode
                  /\ peerRef'["H"] = "destroyed"
                  /\ roomCode'["H"] = roomCode["H"]]_vars

\* Six identifiers in a row were taken.
C28_Witness ==
    /\ retryCount = 5
    /\ connectionStatus["H"] = "error"
    /\ errorMessage["H"] = UnableToGenerateCode

\* p's role, room code, player, scores and game are those of a new hook,
\* its connection and its endpoint are gone and it reports Disconnected.
BackToInitial(p) ==
    /\ connectionStatus[p] = "disconnected"
    /\ connState[p] = "none"
    /\ connId[p] = 0
    /\ peerRef[p] = "none"
    /\ isHost[p] = FALSE
    /\ roomCode[p] = ""
    /\ myPlayer[p] = Null
    /\ starter[p] = "X"
    /\ scores[p] = ZeroScores
    /\ gameState[p] = DefaultGameState

\* C26: a leaveRoom, from whatever state the session is in, closes the
\* connection, destroys the endpoint, releases both references and puts
\* role, room code, player, scores and GameState back to their initial
\* values, and it cancels the joiner's connect-timeout; while a peer has no
\* endpoint its connectionStatus stays Disconnected, until its next
\* createRoom or joinRoom makes it Connecting.
C26_LeaveReleasesEverything ==
    [][\A p \in Peers :
          /\ leaveRoom(p) =>
                /\ BackToInitial(p)'
                /\ (linked(p) /\ connState[otherPeer(p)] = "open")
                       => closeEvt'[otherPeer(p)]
                /\ p = "J" => ~connectionTimeoutRef'
          /\ (peerRef[p] = "none" /\ connectionStatus'[p] # connectionStatus[p]) =>
                /\ connectionStatus[p] = "disconnected"
                /\ connectionStatus'[p] = "connecting"
                /\ peerRef'[p] = "opening"]_vars

\* The joiner has left a session the host still reports as connected.
C26_Witness ==
    /\ joinCount >= 1
    /\ mode["J"] = "welcome"
    /\ BackToInitial("J")
    /\ connectionStatus["H"] = "connected"
    /\ closeEvt["H"]

\* C29: the connect-timeout firing while the joiner is not Connected makes
\* connectionStatus Error with the timed-out message and leaves role, room
\* code, player, endpoint, connection, game and scores in place; no
\* timeout is pending while the joiner is Connected (the 'open' handler
\* cancelled it), so the timeout never puts a Connected session into Error.
C29_TimeoutOnlyReportsTheError ==
    /\ [](connectionStatus["J"] = "connected" => ~connectionTimeoutRef)
    /\ [][connectTimeout =>
             /\ connectionStatus["J"] # "connected"
             /\ connectionStatus'["J"] = "error"
             /\ errorMessage'["J"] = ConnectionTimedOut
             /\ ~connectionTimeoutRef'
             /\ UNCHANGED <<isHost, roomCode, myPlayer, peerRef, connId, connState,
                            gameState, scores, starter>>]_vars

\* The timeout has fired on a joiner whose endpoint is still there.
C29_Witness ==
    /\ connectionStatus["J"] = "error"
    /\ errorMessage["J"] = ConnectionTimedOut
    /\ peerRef["J"] = "open"
    /\ roomCode["J"] # ""
    /\ myPlayer["J"] = "O"

\* C30: every change of connectionStatus, at the host and at the joiner, is
\* one of: Disconnected to Connecting; Connecting to Connected; Connecting
\* or Connected to Error; Connected or Error to Disconnected, and that one
\* only by a leave or by the close the other peer initiated.  So Connected
\* is entered from Connecting only.
C30_StatusFollowsTheMachine ==
    [][\A p \in Peers :
          connectionStatus'[p] # connectionStatus[p] =>
              LET from == connectionStatus[p]
                  to == connectionStatus'[p]
              IN  \/ from = "disconnected" /\ to = "connecting"
                  \/ from = "connecting" /\ to = "connected"
                  \/ from \in {"connecting", "connected"} /\ to = "error"
                  \/ /\ from \in {"connected", "error"}
                     /\ to = "disconnected"
                     /\ (leaveRoom(p) \/ connClose(p))]_vars

\* C25: when the close of the opponent's connection reaches a peer, its
\* connectionStatus becomes Disconnected and its GameState and scores stay
\* as they were; and from then on, while the connection stays closed, no
\* makeMove call changes the board.
C25_NoMovesAfterDisconnect ==
    [][\A p \in Peers :
          /\ connClose(p) =>
                /\ connectionStatus'[p] = "disconnected"
                /\ gameState'[p] = gameState[p]
                /\ scores'[p] = scores[p]
          /\ \A index \in MoveCells :
                (connState[p] = "closed" /\ makeMove(p, index))
                    => gameState'[p].board = gameState[p].board]_vars

\* The scores sc with the counter of player w raised by one.
OneMore(sc, w) == [sc EXCEPT ![w] = @ + 1]

\* C21: within a session a score counter changes only in a step that takes
\* the game from playing to won, and then the winner's counter grows by one
\* and the other stays (draws, resets and inputs after the end of a game
\* change none); and in a connected two-peer session, once every message
\* has been delivered, the two peers hold the same scores.
C21_ScoresFollowTheWins ==
    /\ []((InSession /\ Quiet) => scores["H"] = scores["J"])
    /\ [][/\ aiScores' # aiScores =>
                \/ aiScores' = ZeroScores
                \/ /\ aiGameState.status = "playing"
                   /\ aiGameState'.status = "winner"
                   /\ aiScores' = OneMore(aiScores, aiGameState'.winner)
          /\ \A p \in Peers :
                scores'[p] # scores[p] =>
                    \/ scores'[p] = ZeroScores
                    \/ /\ gameState[p].status = "playing"
                       /\ gameState'[p].status = "winner"
                       /\ scores'[p] = OneMore(scores[p], gameState'[p].winner)]_vars

\* The player who made (or is to make) the first move of the game gs: the
\* marks alternate from the starting player, and currentPlayer stays with
\* the last mover when the game ends.
StartedBy(gs) ==
    IF MarksOf(gs, "X") > MarksOf(gs, "O") THEN "X"
    ELSE IF MarksOf(gs, "O") > MarksOf(gs, "X") THEN "O"
    ELSE IF gs.status = "playing" THEN gs.currentPlayer
    ELSE other(gs.currentPlayer)

\* C22: every resetGame, at a peer or in the AI mode, leaves a fresh game of
\* the same gridSize and winCondition (empty board, status playing) whose
\* starting player is the opposite of the player who started the game it
\* replaces, and leaves the scores as they were; a received RESET leaves
\* the same fresh game with the starting player the message names, records
\* that player as starter and leaves the scores as they were.
C22_ResetAlternatesTheStarter ==
    [][/\ \A p \in Peers :
            resetGame(p) =>
                /\ gameState'[p] =
                       getInitialGameState(other(StartedBy(gameState[p])),
                                           gameState[p].gridSize,
                                           gameState[p].winCondition)
                /\ scores'[p] = scores[p]
       /\ (config # NoConfig /\ aiResetGame) =>
                /\ aiGameState' =
                       getInitialGameState(other(StartedBy(aiGameState)),
                                           aiGameState.gridSize,
                                           aiGameState.winCondition)
                /\ aiScores' = aiScores
       /\ \A p \in Peers :
            (chan[p] # <<>> /\ Head(chan[p]).type = "RESET" /\ handleData(p)) =>
                /\ gameState'[p] =
                       getInitialGameState(Head(chan[p]).startingPlayer,
                                           gameState[p].gridSize,
                                           gameState[p].winCondition)
                /\ starter'[p] = Head(chan[p]).startingPlayer
                /\ scores'[p] = scores[p]]_vars

PingSentTo(q) ==
    /\ Len(chan'[q]) > Len(chan[q])
    /\ chan'[q][Len(chan'[q])].type = "PING"

HandledTypes == {"MOVE", "RESET", "SYNC_STATE", "HANDSHAKE", "CHAT"}

\* p's handleData step on a message of a type outside HandledTypes.
ReceivesIgnored(p) ==
    /\ connState[p] = "open"
    /\ chan[p] # <<>>
    /\ Head(chan[p]).type \notin HandledTypes
    /\ handleData(p)

\* C33: receiving a PING, a PONG or a message of a type that is not
\* recognised leaves the receiver's GameState, scores, connectionStatus,
\* role (isHost, myPlayer), starter, chat log and error message as they
\* were, and nothing is sent in reply.
C33_UnknownMessagesAreIgnored ==
    [][\A p \in Peers :
          ReceivesIgnored(p) =>
              /\ gameState'[p] = gameState[p]
              /\ scores'[p] = scores[p]
              /\ connectionStatus'[p] = connectionStatus[p]
              /\ isHost'[p] = isHost[p]
              /\ myPlayer'[p] = myPlayer[p]
              /\ starter'[p] = starter[p]
              /\ chatMessages'[p] = chatMessages[p]
              /\ errorMessage'[p] = errorMessage[p]
              /\ chan'[otherPeer(p)] = chan[otherPeer(p)]]_vars

\* The host, in a session with chat in its log, has just received a
\* message of an unknown type and is still Connected.
C33_Witness ==
    /\ probe.called
    /\ probe.peer = "H"
    /\ probe.msg.type = "REMATCH"
    /\ InSession
    /\ chatMessages["H"] # <<>>

\* C34: a received HANDSHAKE sets opponentName to its name ("Opponent" for
\* an empty one) and leaves scores and connectionStatus as they were;
\* without gridSize and winCondition it leaves the GameState as it was,
\* with both it replaces the GameState by the fresh game of that gridSize
\* and winCondition in which X starts.
C34_HandshakeAdoptsTheConfiguration ==
    [][\A p \in Peers :
          Receives(p, {"HANDSHAKE"}) =>
              LET msg == Head(chan[p])
              IN  /\ opponentName'[p] =
                        IF msg.name = "" THEN DefaultOpponentName ELSE msg.name
                  /\ scores'[p] = scores[p]
                  /\ connectionStatus'[p] = connectionStatus[p]
                  /\ starter'[p] = starter[p]
                  /\ chatMessages'[p] = chatMessages[p]
                  /\ gameState'[p] =
                        IF msg.gridSize = 0 \/ msg.winCondition = 0
                        THEN gameState[p]
                        ELSE getInitialGameState("X", msg.gridSize, msg.winCondition)]_vars

\* The joiner, in the middle of a 3x3 game, has just received a handshake
\* with the configuration of a 4x4 room and holds the fresh 4x4 game.
C34_Witness ==
    /\ probe.called
    /\ probe.peer = "J"
    /\ probe.msg.type = "HANDSHAKE"
    /\ probe.msg.gridSize = 4
    /\ gameState["J"] = getInitialGameState("X", 4, 4)
    /\ opponentName["J"] = "Eve"
    /\ scores["J"] = scores["H"]

\* The host has just received a handshake without a name and without a
\* configuration: its game in progress and its status are as they were.
C34_WitnessHost ==
    /\ probe.called
    /\ probe.peer = "H"
    /\ probe.msg.type = "HANDSHAKE"
    /\ probe.msg.gridSize = 0
    /\ opponentName["H"] = DefaultOpponentName
    /\ MarksOf(gameState["H"], "X") > 0
    /\ connectionStatus["H"] = "connected"

\* C35: a received CHAT that carries the text only is appended to the chat
\* log with the player who is not the local player as its sender: O at the
\* host, X at the joiner.
C35_LegacyChatIsFromTheOpponent ==
    [][\A p \in Peers :
          (Receives(p, {"CHAT"}) /\ Head(chan[p]).from = Null) =>
              chatMessages'[p] =
                  Append(chatMessages[p],
                         [from |-> other(myPlayer[p]), text |-> Head(chan[p]).text])]_vars

\* The outcome of the 3x3 game from board with toMove to move when both
\* sides play best: "win" or "loss" of ai with the number of plies it
\* takes (the winner as fast, the loser as slow as possible), or "none".
RECURSIVE forcedOutcome(_, _, _)
forcedOutcome(board, ai, toMove) ==
    LET w == checkWinner(board, 3).winner
        next == {forcedOutcome(applyMove(board, i, toMove), ai, other(toMove)) :
                    i \in emptyCells(board)}
        mine == IF toMove = ai THEN "win" ELSE "loss"
        theirs == IF toMove = ai THEN "loss" ELSE "win"
        pliesOf(res) == {o.plies : o \in {n \in next : n.res = res}}
    IN  IF w = ai THEN [res |-> "win", plies |-> 0]
        ELSE IF w = other(ai) THEN [res |-> "loss", plies |-> 0]
        ELSE IF emptyCells(board) = {} THEN [res |-> "none", plies |-> 0]
        ELSE IF pliesOf(mine) # {}
        THEN [res |-> mine,
              plies |-> 1 + (CHOOSE n \in pliesOf(mine) : \A h \in pliesOf(mine) : n <= h)]
        ELSE IF \A n \in next : n.res = theirs
        THEN [res |-> theirs,
              plies |-> 1 + (CHOOSE n \in pliesOf(theirs) : \A h \in pliesOf(theirs) : n >= h)]
        ELSE [res |-> "none", plies |-> 0]

\* The outcomes after the root moves of the search the probe holds.
RootOutcomes ==
    [j \in 1..Len(probe.scored) |->
        forcedOutcome(applyMove(probe.board, probe.scored[j].m, probe.ai),
                      probe.ai, other(probe.ai))]

\* chooseAiMove reaches its search on the board: nobody wins at once.
ReachesSearch(board, ai) ==
    /\ findImmediateWin(board, 3, ai) = NoMove
    /\ findImmediateWin(board, 3, other(ai)) = NoMove

\* C36: in the search (deadline not reached) a root move after which ai
\* wins by force in n plies within the depth searched scores WinScore plus
\* the depth left at the win, and one after which ai loses by force in n
\* plies scores minus WinScore minus the depth left; so of two root moves
\* that both force a win the faster one scores strictly higher, and of two
\* that both lose the slower one scores strictly higher.
C36_FasterWinsScoreHigher ==
    probe.asked =>
        \A out \in {RootOutcomes} :
            LET n == Len(probe.scored)
                left(j) == probe.depth - 1 - out[j].plies
                within(j) == out[j].res # "none" /\ left(j) >= 0
            IN  /\ \A j \in 1..n :
                    within(j) =>
                        probe.scored[j].s =
                            IF out[j].res = "win"
                            THEN 2 * (WinScore + left(j))
                            ELSE 0 - 2 * (WinScore + left(j))
                /\ \A j, h \in 1..n :
                    (within(j) /\ within(h) /\ out[j].res = out[h].res) =>
                        /\ (out[j].res = "win" /\ out[j].plies < out[h].plies)
                           => probe.scored[j].s > probe.scored[h].s
                        /\ (out[j].res = "loss" /\ out[j].plies > out[h].plies)
                           => probe.scored[j].s > probe.scored[h].s

\* The search was asked at the full depth on a board where chooseAiMove
\* reaches it, and two root moves force a win in different numbers of plies.
C36_Witness ==
    /\ probe.asked
    /\ probe.depth = Len(probe.scored)
    /\ ReachesSearch(probe.board, probe.ai)
    /\ \E out \in {RootOutcomes} :
          \E j, h \in 1..Len(probe.scored) :
              /\ out[j].res = "win"
              /\ out[h].res = "win"
              /\ out[j].plies < out[h].plies
              /\ probe.scored[j].s > probe.scored[h].s

\* As C36_Witness, for two root moves that both lose.
C36_WitnessLoss ==
    /\ probe.asked
    /\ probe.depth = Len(probe.scored)
    /\ ReachesSearch(probe.board, probe.ai)
    /\ \E out \in {RootOutcomes} :
          \E j, h \in 1..Len(probe.scored) :
              /\ out[j].res = "loss"
              /\ out[h].res = "loss"
              /\ out[j].plies > out[h].plies
              /\ probe.scored[j].s > probe.scored[h].s

\* Depth-limited minimax without pruning on the 3x3 board, with the
\* terminal and leaf scoring of minimaxAB.
RECURSIVE minimaxPlain(_, _, _, _)
RECURSIVE plainBest(_, _, _, _, _, _)
minimaxPlain(board, ai, toMove, depth) ==
    LET w == checkWinner(board, 3).winner
    IN  IF w = ai THEN wonScore(depth)
        ELSE IF w = other(ai) THEN lostScore(depth)
        ELSE IF isDraw(board) \/ depth = 0 THEN evaluateBoard(board, 3, 3, ai)
        ELSE plainBest(board, ai, toMove, depth, legalMoves(board), 1)

\* The best of the values of moves[i..] for the player to move.
plainBest(board, ai, toMove, depth, moves, i) ==
    LET s == minimaxPlain(applyMove(board, moves[i], toMove), ai, other(toMove), depth - 1)
    IN  IF i = Len(moves)
        THEN s
        ELSE IF toMove = ai
        THEN Max2(s, plainBest(board, ai, toMove, depth, moves, i + 1))
        ELSE Min2(s, plainBest(board, ai, toMove, depth, moves, i + 1))

\* The scores plain minimax gives the root moves of the search the probe holds.
PlainScores ==
    [j \in 1..Len(probe.scored) |->
        minimaxPlain(applyMove(probe.board, probe.scored[j].m, probe.ai),
                     probe.ai, other(probe.ai), probe.depth - 1)]

\* C37: for every board and search depth (deadline not reached) the score
\* the alpha-beta search gives each legal root move is the score of plain
\* depth-limited minimax with the same terminal and leaf scoring, so the
\* ranking of the root moves is the same.
C37_PruningKeepsTheRootScores ==
    probe.asked =>
        \A plain \in {PlainScores} :
            /\ \A j \in 1..Len(probe.scored) : probe.scored[j].s = plain[j]
            /\ \A j, h \in 1..Len(probe.scored) :
                  (probe.scored[j].s < probe.scored[h].s) <=> (plain[j] < plain[h])

\* The search was asked at the full depth on a board with DeepEmpties empty
\* cells where chooseAiMove reaches it, and the root moves score differently:
\* one wins, one loses and one does neither.
C37_Witness ==
    /\ probe.asked
    /\ Len(probe.scored) = DeepEmpties
    /\ probe.depth = DeepEmpties
    /\ ReachesSearch(probe.board, probe.ai)
    /\ \E j, h, k \in 1..Len(probe.scored) :
          /\ probe.scored[j].s >= 2 * WinScore
          /\ probe.scored[h].s <= 0 - 2 * WinScore
          /\ probe.scored[k].s \in (1 - 2 * WinScore)..(2 * WinScore - 1)
          /\ probe.scored[k].s = PlainScores[k]

\* The search was asked at a depth short of the end of the game, and a root
\* move is scored by the evaluation of a board that is not final.
C37_WitnessShallow ==
    /\ probe.asked
    /\ Len(probe.scored) = DeepEmpties
    /\ probe.depth = 3
    /\ \E j, h \in 1..Len(probe.scored) :
          /\ probe.scored[j].s \in 1..100
          /\ probe.scored[h].s \in -100..-1

\* It is O's turn in a game of the AI mode that starter s started, with n
\* marks of O on the board.
AiToMove(n, s) ==
    /\ config # NoConfig
    /\ aiGameState.status = "playing"
    /\ aiGameState.currentPlayer = "O"
    /\ aiStarter = s
    /\ MarksOf(aiGameState, "O") = n

\* C38: in the AI mode, whenever the status is playing and it is O's turn,
\* an O mark is eventually added to the board, unless the game is left or
\* reset before; also when O starts a game after a reset and when the turn
\* check runs again for a position already scheduled.
C38_TheAiMoves ==
    \A n \in 0..4, s \in Players :
        AiToMove(n, s) ~>
            \/ MarksOf(aiGameState, "O") = n + 1
            \/ config = NoConfig
            \/ aiStarter # s

\* O starts a game after a reset, the search is scheduled and the turn
\* check is due again for that position.
C38_Witness ==
    /\ AiToMove(0, "O")
    /\ MarksOf(aiGameState, "X") = 0
    /\ scheduledForRef = turnKey(config.difficulty, aiGameState)
    /\ timers # EmptyBag
    /\ aiEffectDue

\* O has answered the opening move of a game it started after a reset.
C38_WitnessMoved ==
    /\ config # NoConfig
    /\ aiStarter = "O"
    /\ MarksOf(aiGameState, "O") = 2
    /\ MarksOf(aiGameState, "X") = 1
    /\ aiGameState.currentPlayer = "X"

\* The marks of a game are those of alternate moves: the counts of X and O
\* differ by at most one, and in a playing game the player to move does not
\* have more marks than the other.
Alternates(gs) ==
    LET x == MarksOf(gs, "X")
        o == MarksOf(gs, "O")
    IN  /\ x - o \in {-1, 0, 1}
        /\ gs.status = "playing" =>
              IF gs.currentPlayer = "X" THEN x <= o ELSE o <= x

C39_WitnessAi ==
    /\ config # NoConfig
    /\ aiStarter = "O"
    /\ MarksOf(aiGameState, "O") = 2
    /\ MarksOf(aiGameState, "X") = 1
    /\ aiGameState.status = "playing"

\* The marks of p in the cells of a combination.
MarksIn(board, combo, p) == Cardinality({k \in 1..Len(combo) : board[combo[k]] = p})

RECURSIVE SumTo(_, _)
SumTo(f, n) == IF n = 0 THEN 0 ELSE f[n] + SumTo(f, n - 1)

\* C40: the evaluation is antisymmetric in the player: for every board
\* evaluateBoard(board, X) = -evaluateBoard(board, O); a winning
\* combination that holds marks of both players or no mark contributes 0,
\* one that holds n >= 1 marks of one player only contributes 10^(n-1),
\* positive for the player evaluated for and negative for the opponent
\* (all scores doubled).
C40_EvaluationIsAntisymmetric ==
    LET combos == Combos(probe.gridSize, probe.winCondition)
        center == Cardinality(DOMAIN probe.board) \div 2
    IN  /\ probe.score["X"] = 0 - probe.score["O"]
        /\ \A p \in Players :
              /\ \A j \in 1..Len(combos) :
                    LET mine == MarksIn(probe.board, combos[j], p)
                        theirs == MarksIn(probe.board, combos[j], other(p))
                    IN  probe.parts[p][j] =
                            IF (mine > 0 /\ theirs > 0) \/ (mine = 0 /\ theirs = 0) THEN 0
                            ELSE IF mine > 0 THEN 2 * Pow10(mine - 1)
                            ELSE 0 - 2 * Pow10(theirs - 1)
              /\ probe.score[p] =
                    SumTo(probe.parts[p], Len(combos))
                      + (IF probe.board[center] = p THEN 1
                         ELSE IF probe.board[center] = other(p) THEN -1
                         ELSE 0)

\* A 4x4 board with lines of four evaluated: one combination holds three
\* marks of X alone, one holds marks of both players, and the scores of the
\* two players are different from 0.
C40_Witness ==
    /\ probe.gridSize = 4
    /\ probe.winCondition = 4
    /\ probe.score["X"] # 0
    /\ probe.score["O"] = 0 - probe.score["X"]
    /\ \E j, h \in 1..Len(probe.parts["X"]) :
          /\ probe.parts["X"][j] = 200
          /\ probe.parts["O"][j] = -200
          /\ MarksIn(probe.board, Combos(4, 4)[h], "X") > 0
          /\ MarksIn(probe.board, Combos(4, 4)[h], "O") > 0
          /\ probe.parts["X"][h] = 0
====
